---- MODULE Spec2Model ----
(***************************************************************************)
(* Jira browser automation: the session-state store (saveBrowserState /    *)
(* loadBrowserState), the login flow (loginToJira, ensureLoggedIn,         *)
(* checkLoggedIn, the global browser triple) and the ticket-creation flow  *)
(* (createJiraTicket with its option cache and templates).                 *)
(***************************************************************************)
EXTENDS Integers, Sequences, FiniteSets, TLC

VARIABLES
  cfg,          \* JIRA_CONFIG as resolved from the environment
  stateFile,    \* persistence/jira-session-state.json (STATE_FILE)
  loaded,       \* store: value returned by the last loadBrowserState call
  written,      \* store: enhancedState handed to JSON.stringify by the last save
  storeOp,      \* store: the last store operation and how it ended
  storeLog,     \* store: what the last store operation wrote to the console
  globalBrowser, globalContext, globalPage,   \* module-level globals (0 is null)
  gcall,        \* the last direct call of a global getter or of the cleanup
  race,         \* overlapping calls of the global getters, one frame per caller
  heap,         \* the browser engine's objects: browsers, contexts, pages
  call,         \* the top-level call in progress: "idle", "login" or "ensure"
  login,        \* the frame of loginToJira: position, options, locals, result
  ensure,       \* the frame of ensureLoggedIn
  hist,         \* what the current top-level call has done so far
  optionsFile,  \* config/jira-options.json, the option cache
  ticket,       \* the frame of createJiraTicket
  thist         \* what the current run of createJiraTicket has done so far

storeVars == <<loaded, written, storeOp, storeLog>>
fileVars == <<cfg, stateFile>>
globalVars == <<globalBrowser, globalContext, globalPage>>
loginVars == <<globalBrowser, globalContext, globalPage, heap, call, login, ensure, hist>>
ticketVars == <<optionsFile, ticket, thist>>

----------------------------------------------------------------------------
(* JavaScript values *)

NULL == "<null>"
UNDEFINED == "<undefined>"
JsNull == [t |-> "null"]
JsUndefined == [t |-> "undefined"]

\* JS truthiness of a string-or-null-or-undefined property value
Truthy(v) == v \notin {NULL, UNDEFINED, ""}

----------------------------------------------------------------------------
(* Configuration: src/config/jira-config.js *)

DefaultBaseUrl == "https://redventures.atlassian.net"
DefaultEmail == "olwin@redventures.com"
DefaultDashboardUrl == "https://redventures.atlassian.net/jira/software/c/projects/FRONT/boards/3839"

BaseUrls == {DefaultBaseUrl, "https://other.atlassian.net"}
Emails == {DefaultEmail, "someone@else.com"}

\* JIRA_CONFIG: every setting is `process.env.X || default`, so none is ever
\* undefined or empty.
Configs == [baseUrl : BaseUrls, email : Emails, dashboardUrl : {DefaultDashboardUrl}]
DefaultConfig ==
  [baseUrl |-> DefaultBaseUrl, email |-> DefaultEmail, dashboardUrl |-> DefaultDashboardUrl]

----------------------------------------------------------------------------
(* Session state values and the session-state file *)

\* what context.storageState() can return: cookies and per-origin storage
EmptyStorage == [cookies |-> {}, origins |-> {}]
StorageStates ==
  { EmptyStorage,
    [cookies |-> {"cloud.session.token"}, origins |-> {}],
    [cookies |-> {"cloud.session.token"}, origins |-> {"localStorage"}] }

\* what page.url() can return
LoginUrl == "https://id.atlassian.com/login"
LoginContinueUrl ==
  "https://id.atlassian.com/login?continue=https%3A%2F%2Fredventures.atlassian.net%2Fjira"
BoardUrl == DefaultDashboardUrl
VerifyUrl == "https://id.atlassian.com/login/verify"
Urls == {LoginUrl, VerifyUrl, LoginContinueUrl, BoardUrl}

\* `url.includes('redventures.atlassian.net')`: a substring test on the whole
\* location, so it also holds of a location that only names the domain
IncludesAuthDomain(url) == url \in {BoardUrl, LoginContinueUrl}

\* new Date().toISOString(): an earlier reading, and the current one
Earlier == "2025-01-01T00:00:00.000Z"
Now == "2025-06-01T00:00:00.000Z"
Timestamps == {Earlier, Now}

NoMetadata == JsUndefined
Metadata(savedAt, dashboardUrl, baseUrl, userEmail) ==
  [t |-> "object", savedAt |-> savedAt, dashboardUrl |-> dashboardUrl,
   baseUrl |-> baseUrl, userEmail |-> userEmail]

\* metadata objects a file may hold (any property may be absent or null)
FileMetadata ==
  { Metadata(s, d, b, e) :
      s \in {Earlier, UNDEFINED},
      d \in {BoardUrl, NULL, UNDEFINED},
      b \in BaseUrls \cup {UNDEFINED},
      e \in Emails \cup {UNDEFINED} }

StateObject(storage, metadata) ==
  [t |-> "object", cookies |-> storage.cookies, origins |-> storage.origins,
   metadata |-> metadata]

FileMissing == [kind |-> "missing"]
FileGarbage == [kind |-> "garbage"]
FileJson(v) == [kind |-> "json", value |-> v]

\* every content of the session-state file the model considers
SessionFiles ==
  {FileMissing, FileGarbage, FileJson(JsNull)}
    \cup { FileJson(StateObject(s, m)) : s \in StorageStates, m \in FileMetadata \cup {NoMetadata} }

\* JSON.stringify of a state object: a property whose value is undefined is
\* omitted, null and strings are kept; each property is serialised on its own.
StringifyProp(v) == IF v = UNDEFINED THEN UNDEFINED ELSE v
StringifyMetadata(m) ==
  IF m.t # "object" THEN JsUndefined
  ELSE [t |-> "object",
        savedAt |-> StringifyProp(m.savedAt),
        dashboardUrl |-> StringifyProp(m.dashboardUrl),
        baseUrl |-> StringifyProp(m.baseUrl),
        userEmail |-> StringifyProp(m.userEmail)]
Stringify(v) ==
  IF v.t = "object"
    THEN FileJson([t |-> "object", cookies |-> v.cookies, origins |-> v.origins,
                   metadata |-> StringifyMetadata(v.metadata)])
    ELSE FileJson(JsNull)

\* JSON.parse(fs.readFileSync(...)): throws on text that is not JSON
ParseThrows(file) == file.kind # "json"
Parse(file) == file.value

----------------------------------------------------------------------------
(* saveBrowserState / loadBrowserState *)

\* enhancedState: { ...state, metadata: { savedAt, dashboardUrl, baseUrl, userEmail } }
EnhancedState(state, pageUrl, now, c) ==
  StateObject(state, Metadata(now, pageUrl, c.baseUrl, c.email))

SavedFileRemoved(state, pageUrl, now, c) == FileMissing

\* the file after saveBrowserState's writeFileSync succeeded
SavedFile(state, pageUrl, now, c) == Stringify(EnhancedState(state, pageUrl, now, c))

IdentityMatchesBaseUrlOnly(metadata, c) == metadata.baseUrl = c.baseUrl

\* `baseUrl === currentBaseUrl && userEmail === currentUserEmail`
IdentityMatches(metadata, c) ==
  metadata.baseUrl = c.baseUrl /\ metadata.userEmail = c.email

\* `if (state.metadata)`: an object is truthy, undefined is not
HasMetadata(state) == state.metadata.t = "object"

LoadBrowserStateNoMeta(file, c) ==
  IF file.kind = "missing" THEN JsNull
  ELSE IF ParseThrows(file) THEN JsNull
  ELSE IF Parse(file).t = "null" THEN JsNull
  ELSE IF HasMetadata(Parse(file))
    THEN IF IdentityMatches(Parse(file).metadata, c)
           THEN [Parse(file) EXCEPT !.metadata = NoMetadata]
           ELSE JsNull
    ELSE Parse(file)

\* loadBrowserState(): the state, or null
LoadBrowserState(file, c) ==
  IF file.kind = "missing" THEN JsNull                \* !fs.existsSync
  ELSE IF ParseThrows(file) THEN JsNull               \* catch: warn, return null
  ELSE IF Parse(file).t = "null" THEN JsNull          \* null.metadata throws: catch
  ELSE IF HasMetadata(Parse(file))
    THEN IF IdentityMatches(Parse(file).metadata, c)
           THEN Parse(file)
           ELSE JsNull
    ELSE Parse(file)                                  \* legacy state without metadata

\* what a store operation writes to the console: nothing, console.log lines,
\* a console.log line that carries the warning sign, or a console.warn line
NoLog == "none"
InfoLog == "log"
WarningLog == "logWarning"
WarnLog == "warn"

\* the console output of loadBrowserState(): none at all when the file does
\* not exist
LoadBrowserStateLog(file, c) ==
  IF file.kind = "missing" THEN NoLog                 \* falls through to return null
  ELSE IF ParseThrows(file) THEN WarnLog              \* catch: console.warn
  ELSE IF Parse(file).t = "null" THEN WarnLog         \* catch: console.warn
  ELSE IF HasMetadata(Parse(file))
    THEN IF IdentityMatches(Parse(file).metadata, c)
           THEN InfoLog                               \* "Loaded saved browser state"
           ELSE WarningLog                            \* "... different Jira instance or user, ignoring"
    ELSE InfoLog                                      \* "... (legacy format)"

SaveBrowserStateLogSilent(how) == NoLog

\* the console output of saveBrowserState(): nothing when the browser has no
\* context, a warning when a call threw
SaveBrowserStateLog(how) ==
  CASE how = "saved" -> InfoLog
    [] how = "threw" -> WarnLog
    [] how = "noContext" -> NoLog

----------------------------------------------------------------------------
(* The browser engine: browsers, their contexts, their pages *)

MaxObjects == 14
Ids == 1..MaxObjects

EmptyHeap ==
  [nextId |-> 1,
   contextsOf |-> [i \in Ids |-> <<>>],      \* browser.contexts(), open ones, in order
   ctxBrowser |-> [i \in Ids |-> 0],         \* the browser a context belongs to
   storageOf |-> [i \in Ids |-> EmptyStorage], \* a context's storage state
   pageCtx |-> [i \in Ids |-> 0],            \* the context a page belongs to
   closed |-> {}]

HasRoom(h) == h.nextId <= MaxObjects
IsOpen(h, o) == o # 0 /\ o \notin h.closed

\* chromium.launch(): the new browser is h.nextId
Launch(h) == [h EXCEPT !.nextId = @ + 1]
\* browser.newContext({ storageState }): the new context is h.nextId
NewContext(h, b, s) ==
  [h EXCEPT !.nextId = @ + 1,
            !.contextsOf[b] = Append(@, h.nextId),
            !.ctxBrowser[h.nextId] = b,
            !.storageOf[h.nextId] = s]
\* context.newPage(): the new page is h.nextId
NewPage(h, c) == [h EXCEPT !.nextId = @ + 1, !.pageCtx[h.nextId] = c]

SeqRemove(s, x) == SelectSeq(s, LAMBDA y : y # x)
PagesOf(h, c) == {p \in Ids : h.pageCtx[p] = c}
ContextsEverOf(h, b) == {c \in Ids : h.ctxBrowser[c] = b}

ClosePage(h, p) == [h EXCEPT !.closed = @ \cup {p}]
CloseContext(h, c) ==
  [h EXCEPT !.closed = @ \cup {c} \cup PagesOf(h, c),
            !.contextsOf = [b \in Ids |-> SeqRemove(h.contextsOf[b], c)]]
CloseBrowser(h, b) ==
  [h EXCEPT !.closed = @ \cup {b} \cup ContextsEverOf(h, b)
                         \cup UNION {PagesOf(h, c) : c \in ContextsEverOf(h, b)},
            !.contextsOf[b] = <<>>]

\* the storage state a restored context starts with
StorageOfState(state) == [cookies |-> state.cookies, origins |-> state.origins]

----------------------------------------------------------------------------
(* checkLoggedIn *)

CheckLoggedInPrimaryOnly(loginHeading, createButton, fallbackButton) ==
  ~loginHeading /\ createButton

\* checkLoggedIn(page): the heading probe, then the two create-button probes;
\* every probe that fails counts as "not visible"
CheckLoggedIn(loginHeading, createButton, fallbackButton) ==
  IF loginHeading THEN FALSE
  ELSE IF createButton THEN TRUE
  ELSE fallbackButton

----------------------------------------------------------------------------
(* loginToJira *)

PollTimeoutMs == 60000        \* `const timeout = 60000`
PollIntervalMs == 1000        \* `await page.waitForTimeout(1000)`

NoResult == [success |-> FALSE, error |-> "<pending>", browser |-> 0, page |-> 0, context |-> 0]
FailureNoMessage(msg) == [success |-> FALSE, error |-> "<none>", browser |-> 0, page |-> 0, context |-> 0]

\* { success: false, error }
Failure(msg) == [success |-> FALSE, error |-> msg, browser |-> 0, page |-> 0, context |-> 0]
SuccessLiveNoPage(f) ==
  [success |-> TRUE, error |-> "<none>", browser |-> f.browser, page |-> 0,
   context |-> f.context]

\* { success: true, browser, page, context }
SuccessLive(f) ==
  [success |-> TRUE, error |-> "<none>", browser |-> f.browser, page |-> f.page,
   context |-> f.context]
\* { success: true, browser: null, page: null, context: null }
SuccessClosed == [success |-> TRUE, error |-> "<none>", browser |-> 0, page |-> 0, context |-> 0]

IdleLogin ==
  [pc |-> "idle", saveState |-> TRUE, useGlobalBrowser |-> TRUE,
   browser |-> 0, context |-> 0, page |-> 0, shouldCloseBrowser |-> FALSE,
   currentUrl |-> LoginUrl, elapsed |-> 0, result |-> NoResult]

\* what one run of loginToJira has done (reset when loginToJira is entered),
\* and `cycles`, the identity entries of the whole top-level call
NoHist ==
  [fills |-> 0,             \* identity entries (usernameInput.fill)
   waited |-> FALSE,        \* the out-of-band wait was entered
   polled |-> FALSE,        \* the URL poll loop was entered
   observed |-> FALSE,      \* page.url() returned a location that includes the domain
   createButton |-> FALSE,  \* the page showed a create button when the location
                            \* that counted as success was read (the code does not look)
   saveCalls |-> 0,         \* calls of saveBrowserState
   writes |-> 0,            \* writes of the session-state file
   saveOutcome |-> "none",  \* how the call of saveBrowserState ended
   firstProbe |-> "none",   \* what the page showed at the first probe
   lastProbe |-> "none",    \* what the page showed at the latest probe
   resume |-> "none",       \* the resume attempt: a create button "visible" or
                            \* "hidden" on the saved dashboard, or "failed" to open it
   path |-> "none",         \* how success was reached: resume, marker or fresh
   startFile |-> FileMissing, \* the session-state file when loginToJira was entered
   cycles |-> 0]
RunHist(h, file) == [NoHist EXCEPT !.cycles = h.cycles, !.startFile = file]

\* the "already authenticated" marker as the page shows it: no login heading
\* and a create button under the primary or the fallback selector
MarkerVisible(loginHeading, createButton, fallbackButton) ==
  ~loginHeading /\ (createButton \/ fallbackButton)
Seen(loginHeading, createButton, fallbackButton) ==
  IF MarkerVisible(loginHeading, createButton, fallbackButton) THEN "marker" ELSE "nomarker"

\* entry of loginToJira(options): validateConfig() is empty and cannot throw
BeginLogin(saveState, useGlobalBrowser) ==
  [IdleLogin EXCEPT !.pc = IF useGlobalBrowser THEN "acqBrowser" ELSE "launch",
                    !.saveState = saveState,
                    !.useGlobalBrowser = useGlobalBrowser]

\* no top-level call has been made yet
Quiet == call = "idle"

InLogin(p) == call \in {"login", "ensure"} /\ login.pc = p

\* return from loginToJira: the locals are gone, the result remains
Return(r) ==
  [IdleLogin EXCEPT !.pc = "done", !.result = r, !.saveState = login.saveState,
                    !.useGlobalBrowser = login.useGlobalBrowser]
\* the outer catch: screenshot attempt, then { success: false, error }
Caught == Return(Failure("error.message"))

FirstProbe(h, seen) == IF h.firstProbe = "none" THEN seen ELSE h.firstProbe

StartLogin ==
  /\ Quiet
  /\ \E s \in BOOLEAN, g \in BOOLEAN : login' = BeginLogin(s, g)
  /\ call' = "login"
  /\ hist' = RunHist(NoHist, stateFile)
  /\ UNCHANGED <<fileVars, storeVars, ticketVars, gcall, race, globalVars, heap, ensure>>

\* the storage a context made from `savedState` can start with: restored from
\* it, or empty when there is none or the restoring newContext failed and the
\* plain newContext() that follows succeeded
ContextStorages(saved) ==
  IF saved = JsNull THEN {EmptyStorage} ELSE {StorageOfState(saved), EmptyStorage}

\* browser = await getGlobalBrowser()
LAcqBrowser ==
  /\ InLogin("acqBrowser")
  /\ \/ /\ globalBrowser # 0                       \* reuse
        /\ login' = [login EXCEPT !.pc = "acqContext", !.browser = globalBrowser]
        /\ UNCHANGED <<globalVars, heap>>
     \/ /\ globalBrowser = 0 /\ HasRoom(heap)      \* chromium.launch()
        /\ globalBrowser' = heap.nextId
        /\ heap' = Launch(heap)
        /\ login' = [login EXCEPT !.pc = "acqContext", !.browser = heap.nextId]
        /\ UNCHANGED <<globalContext, globalPage>>
     \/ /\ globalBrowser = 0                       \* launch throws: catch at 1367
        /\ globalBrowser' = 0 /\ globalContext' = 0 /\ globalPage' = 0
        /\ login' = [login EXCEPT !.pc = "launch"]
        /\ UNCHANGED heap
  /\ UNCHANGED <<fileVars, storeVars, ticketVars, gcall, race, call, ensure, hist>>

\* context = await getGlobalContext()
LAcqContext ==
  /\ InLogin("acqContext")
  /\ \/ /\ globalContext # 0                       \* reuse
        /\ login' = [login EXCEPT !.pc = "acqPage", !.context = globalContext]
        /\ UNCHANGED <<globalVars, heap>>
     \/ /\ globalContext = 0 /\ HasRoom(heap) /\ IsOpen(heap, globalBrowser)
        /\ \E s \in ContextStorages(LoadBrowserState(stateFile, cfg)) :
             heap' = NewContext(heap, globalBrowser, s)
        /\ globalContext' = heap.nextId
        /\ login' = [login EXCEPT !.pc = "acqPage", !.context = heap.nextId]
        /\ UNCHANGED <<globalBrowser, globalPage>>
     \/ /\ globalContext = 0                       \* newContext throws: catch at 1367
        /\ globalBrowser' = 0 /\ globalContext' = 0 /\ globalPage' = 0
        /\ login' = [login EXCEPT !.pc = "launch"]
        /\ UNCHANGED heap
  /\ UNCHANGED <<fileVars, storeVars, ticketVars, gcall, race, call, ensure, hist>>

\* page = await getGlobalPage()
LAcqPage ==
  /\ InLogin("acqPage")
  /\ \/ /\ globalPage # 0                          \* reuse
        /\ login' = [login EXCEPT !.pc = "resume", !.page = globalPage]
        /\ UNCHANGED <<globalVars, heap>>
     \/ /\ globalPage = 0 /\ HasRoom(heap) /\ IsOpen(heap, globalContext)
        /\ heap' = NewPage(heap, globalContext)
        /\ \/ /\ globalPage' = heap.nextId         \* newPage and setViewportSize
              /\ login' = [login EXCEPT !.pc = "resume", !.page = heap.nextId]
              /\ UNCHANGED <<globalBrowser, globalContext>>
           \/ /\ globalBrowser' = 0 /\ globalContext' = 0 /\ globalPage' = 0
              /\ login' = [login EXCEPT !.pc = "launch"]   \* setViewportSize throws
     \/ /\ globalPage = 0                          \* newPage throws: catch at 1367
        /\ globalBrowser' = 0 /\ globalContext' = 0 /\ globalPage' = 0
        /\ login' = [login EXCEPT !.pc = "launch"]
        /\ UNCHANGED heap
  /\ UNCHANGED <<fileVars, storeVars, ticketVars, gcall, race, call, ensure, hist>>

\* if (!browser) { browser = await chromium.launch(...); shouldCloseBrowser = true }
LLaunch ==
  /\ InLogin("launch")
  /\ \/ /\ login.browser # 0
        /\ login' = [login EXCEPT !.pc = IF login.page = 0 THEN "ctx0" ELSE "resume"]
        /\ UNCHANGED heap
     \/ /\ login.browser = 0 /\ HasRoom(heap)
        /\ heap' = Launch(heap)
        /\ login' = [login EXCEPT !.pc = "ctx0", !.browser = heap.nextId,
                                  !.shouldCloseBrowser = TRUE]
     \/ /\ login.browser = 0                       \* launch throws
        /\ login' = Caught
        /\ UNCHANGED heap
  /\ UNCHANGED <<fileVars, storeVars, ticketVars, gcall, race, globalVars, call, ensure, hist>>

\* context = browser.contexts()[0] || (await browser.newContext())
LCtx0 ==
  /\ InLogin("ctx0")
  /\ \/ /\ heap.contextsOf[login.browser] # <<>>
        /\ login' = [login EXCEPT !.pc = "ctxSaved",
                                  !.context = Head(heap.contextsOf[login.browser])]
        /\ UNCHANGED heap
     \/ /\ heap.contextsOf[login.browser] = <<>>
        /\ HasRoom(heap) /\ IsOpen(heap, login.browser)
        /\ heap' = NewContext(heap, login.browser, EmptyStorage)
        /\ login' = [login EXCEPT !.pc = "ctxSaved", !.context = heap.nextId]
     \/ /\ heap.contextsOf[login.browser] = <<>>   \* newContext throws
        /\ login' = Caught
        /\ UNCHANGED heap
  /\ UNCHANGED <<fileVars, storeVars, ticketVars, gcall, race, globalVars, call, ensure, hist>>

\* const savedState = loadBrowserState(); if (savedState) context = newContext(...)
LCtxSaved ==
  /\ InLogin("ctxSaved")
  /\ LET saved == LoadBrowserState(stateFile, cfg) IN
     \/ /\ saved = JsNull
        /\ login' = [login EXCEPT !.pc = "newPage"]
        /\ UNCHANGED heap
     \/ /\ saved # JsNull /\ HasRoom(heap) /\ IsOpen(heap, login.browser)
        /\ \E s \in ContextStorages(saved) :
             heap' = NewContext(heap, login.browser, s)
        /\ login' = [login EXCEPT !.pc = "newPage", !.context = heap.nextId]
     \/ /\ saved # JsNull                          \* both newContext calls throw
        /\ login' = Caught
        /\ UNCHANGED heap
  /\ UNCHANGED <<fileVars, storeVars, ticketVars, gcall, race, globalVars, call, ensure, hist>>

\* page = await context.newPage()
LNewPage ==
  /\ InLogin("newPage")
  /\ \/ /\ HasRoom(heap) /\ IsOpen(heap, login.context)
        /\ heap' = NewPage(heap, login.context)
        /\ login' = [login EXCEPT !.pc = "viewport", !.page = heap.nextId]
     \/ /\ login' = Caught
        /\ UNCHANGED heap
  /\ UNCHANGED <<fileVars, storeVars, ticketVars, gcall, race, globalVars, call, ensure, hist>>

\* await page.setViewportSize(...)
LViewport ==
  /\ InLogin("viewport")
  /\ \/ IsOpen(heap, login.page) /\ login' = [login EXCEPT !.pc = "resume"]
     \/ login' = Caught
  /\ UNCHANGED <<fileVars, storeVars, ticketVars, gcall, race, globalVars, heap, call, ensure, hist>>
----------------------------------------------------------------------------
(* loginToJira: resume, probe, identity entry, wait, poll, save, close *)

GoCaught(p) == Caught

Go(p) == [login EXCEPT !.pc = p]

\* lines 1423-1439: the create button under its primary or fallback selector
ResumeProbe(createButton, fallbackButton) == createButton \/ fallbackButton

\* `savedState && savedState.metadata && savedState.metadata.dashboardUrl`
HasSavedDashboard(saved) ==
  saved # JsNull /\ HasMetadata(saved) /\ Truthy(saved.metadata.dashboardUrl)

\* Try to resume from saved dashboard URL first
LResume ==
  /\ InLogin("resume")
  /\ LET try == HasSavedDashboard(LoadBrowserState(stateFile, cfg)) IN
     \/ /\ ~try
        /\ login' = Go("nav")
        /\ UNCHANGED hist
     \/ /\ try                                     \* goto or wait throws: inner catch
        /\ login' = Go("nav")
        /\ hist' = [hist EXCEPT !.resume = "failed"]
     \/ /\ try /\ IsOpen(heap, login.page)
        /\ \E loginHeading \in BOOLEAN, createButton \in BOOLEAN, fallbackButton \in BOOLEAN :
             LET seen == Seen(loginHeading, createButton, fallbackButton) IN
             IF ResumeProbe(createButton, fallbackButton)
               THEN /\ login' = Return(SuccessLive(login))
                    /\ hist' = [hist EXCEPT !.firstProbe = FirstProbe(hist, seen),
                                            !.lastProbe = seen,
                                            !.path = "resume", !.resume = "visible"]
               ELSE /\ login' = Go("nav")
                    /\ hist' = [hist EXCEPT !.firstProbe = FirstProbe(hist, seen),
                                            !.lastProbe = seen,
                                            !.resume = "hidden"]
  /\ UNCHANGED <<fileVars, storeVars, ticketVars, gcall, race, globalVars, heap, call, ensure>>

\* await page.goto(JIRA_CONFIG.dashboardUrl, ...); await page.waitForTimeout(2000)
LNav ==
  /\ InLogin("nav")
  /\ \/ IsOpen(heap, login.page) /\ login' = Go("probe")
     \/ login' = Caught
  /\ UNCHANGED <<fileVars, storeVars, ticketVars, gcall, race, globalVars, heap, call, ensure, hist>>

\* if (await checkLoggedIn(page)) return { success: true, browser, page, context }
LProbe ==
  /\ InLogin("probe")
  /\ \E loginHeading \in BOOLEAN, createButton \in BOOLEAN, fallbackButton \in BOOLEAN :
       LET seen == Seen(loginHeading, createButton, fallbackButton) IN
       IF CheckLoggedIn(loginHeading, createButton, fallbackButton)
         THEN /\ login' = Return(SuccessLive(login))
              /\ hist' = [hist EXCEPT !.firstProbe = FirstProbe(hist, seen),
                                      !.lastProbe = seen, !.path = "marker"]
         ELSE /\ login' = Go("username")
              /\ hist' = [hist EXCEPT !.firstProbe = FirstProbe(hist, seen),
                                      !.lastProbe = seen]
  /\ UNCHANGED <<fileVars, storeVars, ticketVars, gcall, race, globalVars, heap, call, ensure>>

\* usernameInput.waitFor(...).catch(...); if (await usernameInput.isVisible())
LUsername ==
  /\ InLogin("username")
  /\ \/ \E visible \in BOOLEAN : login' = Go(IF visible THEN "fill" ELSE "probe2")
     \/ login' = Caught
  /\ UNCHANGED <<fileVars, storeVars, ticketVars, gcall, race, globalVars, heap, call, ensure, hist>>

\* await usernameInput.fill(JIRA_CONFIG.credentials.email)
LFill ==
  /\ InLogin("fill")
  /\ \/ /\ login' = Go("submit")
        /\ hist' = [hist EXCEPT !.fills = @ + 1, !.cycles = @ + 1]
     \/ /\ login' = Caught
        /\ UNCHANGED hist
  /\ UNCHANGED <<fileVars, storeVars, ticketVars, gcall, race, globalVars, heap, call, ensure>>

\* await page.keyboard.press("Enter"), then the 10 second wait starts
LSubmit ==
  /\ InLogin("submit")
  /\ \/ /\ login' = Go("wait10")
        /\ hist' = [hist EXCEPT !.waited = TRUE]
     \/ /\ login' = Caught
        /\ UNCHANGED hist
  /\ UNCHANGED <<fileVars, storeVars, ticketVars, gcall, race, globalVars, heap, call, ensure>>

\* await page.waitForTimeout(10000)
LWait10 ==
  /\ InLogin("wait10")
  /\ \/ login' = Go("urlcheck")
     \/ login' = Caught
  /\ UNCHANGED <<fileVars, storeVars, ticketVars, gcall, race, globalVars, heap, call, ensure, hist>>

\* the site has (or has not) set the session's cookies in the page's context
SiteStorages == {EmptyStorage, [cookies |-> {"cloud.session.token"}, origins |-> {"localStorage"}]}
Authenticate(h, p, s) == [h EXCEPT !.storageOf[h.pageCtx[p]] = s]

AlreadyThereAlways(currentUrl) == TRUE

\* `currentUrl.includes('redventures.atlassian.net')` after the 10 second wait
AlreadyThere(currentUrl) == IncludesAuthDomain(currentUrl)

\* let currentUrl = page.url(); if (currentUrl.includes('redventures.atlassian.net'))
LUrlCheck ==
  /\ InLogin("urlcheck")
  /\ \E u \in Urls :
       IF AlreadyThere(u)
         THEN /\ login' = [login EXCEPT !.pc = "settle1", !.currentUrl = u]
              /\ \E createButton \in BOOLEAN :
                   hist' = [hist EXCEPT !.observed = @ \/ IncludesAuthDomain(u),
                                        !.createButton = createButton]
              /\ \E s \in SiteStorages : heap' = Authenticate(heap, login.page, s)
         ELSE /\ login' = [login EXCEPT !.pc = "poll", !.currentUrl = u, !.elapsed = 0]
              /\ hist' = [hist EXCEPT !.polled = TRUE,
                                      !.observed = @ \/ IncludesAuthDomain(u)]
              /\ UNCHANGED heap
  /\ UNCHANGED <<fileVars, storeVars, ticketVars, gcall, race, globalVars, call, ensure>>

\* await page.waitForTimeout(2000) on the first success branch (outer catch)
LSettle1 ==
  /\ InLogin("settle1")
  /\ \/ login' = Go("save")
     \/ login' = Caught
  /\ UNCHANGED <<fileVars, storeVars, ticketVars, gcall, race, globalVars, heap, call, ensure, hist>>

UrlChangedAnywhere(newUrl, currentUrl) == newUrl # currentUrl

\* `newUrl !== currentUrl && newUrl.includes('redventures.atlassian.net')`
UrlChanged(newUrl, currentUrl) == newUrl # currentUrl /\ IncludesAuthDomain(newUrl)

PollRunsForever(elapsed) == TRUE

\* while (Date.now() - startTime < timeout && !loginSuccessful)
PollRuns(elapsed) == elapsed < PollTimeoutMs

\* one iteration of the poll loop, or its end on the deadline
LPoll ==
  /\ InLogin("poll")
  /\ \/ /\ PollRuns(login.elapsed)
        /\ \E newUrl \in Urls :
             IF UrlChanged(newUrl, login.currentUrl)
               THEN /\ login' = [login EXCEPT !.pc = "settle2", !.currentUrl = newUrl,
                                              !.elapsed = 0]
                    /\ \E createButton \in BOOLEAN :
                         hist' = [hist EXCEPT !.observed = @ \/ IncludesAuthDomain(newUrl),
                                              !.createButton = createButton]
                    /\ \E s \in SiteStorages : heap' = Authenticate(heap, login.page, s)
               ELSE /\ login' = [login EXCEPT !.elapsed = @ + PollIntervalMs]
                    /\ hist' = [hist EXCEPT !.observed = @ \/ IncludesAuthDomain(newUrl)]
                    /\ UNCHANGED heap
     \/ /\ PollRuns(login.elapsed)                 \* waitForTimeout throws: inner catch
        /\ login' = Return(Failure("Error waiting for URL change"))
        /\ UNCHANGED <<hist, heap>>
     \/ /\ ~PollRuns(login.elapsed)
        /\ login' = Return(Failure("URL did not change to redventures.atlassian.net - login may have failed"))
        /\ UNCHANGED <<hist, heap>>
  /\ UNCHANGED <<fileVars, storeVars, ticketVars, gcall, race, globalVars, call, ensure>>

\* await page.waitForTimeout(2000) inside the poll's try (inner catch)
LSettle2 ==
  /\ InLogin("settle2")
  /\ \/ login' = Go("save")
     \/ login' = Return(Failure("Error waiting for URL change"))
  /\ UNCHANGED <<fileVars, storeVars, ticketVars, gcall, race, globalVars, heap, call, ensure, hist>>

ShouldSaveNoContext(f) == f.saveState /\ f.context = 0

\* `if (saveState && context)`
ShouldSave(f) == f.saveState /\ f.context # 0

\* if (saveState && context) await saveBrowserState(browser, page)
LSave ==
  /\ InLogin("save")
  /\ login' = Go("close")
  /\ LET ctxs == heap.contextsOf[login.browser] IN
     \/ /\ ~ShouldSave(login)
        /\ UNCHANGED <<stateFile, hist, storeLog>>
     \/ /\ ShouldSave(login) /\ ctxs # <<>>        \* contexts()[0] state is written
        /\ stateFile' = SavedFile(heap.storageOf[Head(ctxs)], login.currentUrl, Now, cfg)
        /\ hist' = [hist EXCEPT !.saveCalls = @ + 1, !.writes = @ + 1,
                                !.saveOutcome = "saved"]
        /\ storeLog' = SaveBrowserStateLog("saved")
     \/ /\ ShouldSave(login)
        \* no context: nothing is done; else storageState(), mkdirSync or
        \* writeFileSync throws and the catch warns
        /\ \E how \in (IF ctxs = <<>> THEN {"noContext"} ELSE {"threw"}) :
             /\ hist' = [hist EXCEPT !.saveCalls = @ + 1, !.saveOutcome = how]
             /\ storeLog' = SaveBrowserStateLog(how)
        /\ UNCHANGED stateFile
  /\ UNCHANGED <<cfg, loaded, written, storeOp, ticketVars, gcall, race, globalVars, heap, call, ensure>>

CloseOnSuccessKeepGlobals(h, g, b, p, c, should, failAt) ==
  [heap |-> CloseContext(ClosePage(h, p), c), gb |-> g[1], gc |-> g[2], gp |-> g[3],
   stop |-> FALSE]

\* closeBrowserOnSuccess(browser, page, context, shouldCloseBrowser); close
\* call number failAt throws (0: none does) and the catch ends the function
CloseOnSuccess(h, g, b, p, c, should, failAt) ==
  LET s0 == [heap |-> h, gb |-> g[1], gc |-> g[2], gp |-> g[3], stop |-> FALSE]
      s1 == IF p = 0 THEN s0
            ELSE IF failAt = 1 THEN [s0 EXCEPT !.stop = TRUE]
            ELSE [s0 EXCEPT !.heap = ClosePage(s0.heap, p),
                            !.gp = IF s0.gp = p THEN 0 ELSE s0.gp]
      s2 == IF s1.stop \/ c = 0 THEN s1
            ELSE IF failAt = 2 THEN [s1 EXCEPT !.stop = TRUE]
            ELSE [s1 EXCEPT !.heap = CloseContext(s1.heap, c),
                            !.gc = IF s1.gc = c THEN 0 ELSE s1.gc]
      s3 == IF s2.stop \/ b = 0 \/ ~should THEN s2
            ELSE IF failAt = 3 THEN [s2 EXCEPT !.stop = TRUE]
            ELSE [s2 EXCEPT !.heap = CloseBrowser(s2.heap, b),
                            !.gb = IF s2.gb = b THEN 0 ELSE s2.gb]
  IN s3

LClose ==
  /\ InLogin("close")
  /\ \E failAt \in 0..3 :
       LET r == CloseOnSuccess(heap, <<globalBrowser, globalContext, globalPage>>,
                               login.browser, login.page, login.context,
                               login.shouldCloseBrowser, failAt) IN
       /\ heap' = r.heap
       /\ globalBrowser' = r.gb /\ globalContext' = r.gc /\ globalPage' = r.gp
  /\ login' = Return(SuccessClosed)
  /\ hist' = [hist EXCEPT !.path = "fresh"]
  /\ UNCHANGED <<fileVars, storeVars, ticketVars, gcall, race, call, ensure>>

\* no username field: `if (await checkLoggedIn(page))`
LProbe2 ==
  /\ InLogin("probe2")
  /\ \E loginHeading \in BOOLEAN, createButton \in BOOLEAN, fallbackButton \in BOOLEAN :
       LET seen == Seen(loginHeading, createButton, fallbackButton) IN
       IF CheckLoggedIn(loginHeading, createButton, fallbackButton)
         THEN /\ login' = Return(SuccessLive(login))
              /\ hist' = [hist EXCEPT !.lastProbe = seen, !.path = "marker"]
         ELSE /\ login' = Return(Failure("Could not find username input field"))
              /\ hist' = [hist EXCEPT !.lastProbe = seen]
  /\ UNCHANGED <<fileVars, storeVars, ticketVars, gcall, race, globalVars, heap, call, ensure>>

LoginStep ==
  \/ LAcqBrowser \/ LAcqContext \/ LAcqPage \/ LLaunch \/ LCtx0 \/ LCtxSaved
  \/ LNewPage \/ LViewport \/ LResume \/ LNav \/ LProbe \/ LUsername \/ LFill
  \/ LSubmit \/ LWait10 \/ LUrlCheck \/ LSettle1 \/ LPoll \/ LSettle2 \/ LSave
  \/ LClose \/ LProbe2

----------------------------------------------------------------------------
(* ensureLoggedIn *)

IdleEnsure ==
  [pc |-> "idle", phase |-> 1, browser |-> 0, context |-> 0, page |-> 0,
   launched |-> {},          \* every browser ensureLoggedIn launched in this call
   result |-> NoResult, rejected |-> FALSE]

EGo(p) == [ensure EXCEPT !.pc = p]
EReturn(r) == [ensure EXCEPT !.pc = "done", !.result = r]
\* an exception leaves ensureLoggedIn: it has no try/catch of its own
ERejects == [ensure EXCEPT !.pc = "done", !.rejected = TRUE]

InEnsure(p) == call = "ensure" /\ ensure.pc = p

\* const savedState = loadBrowserState(); if (!savedState) loginToJira({ saveState: true, useGlobalBrowser: false })
StartEnsure ==
  /\ Quiet
  /\ call' = "ensure"
  /\ hist' = RunHist(NoHist, stateFile)
  /\ IF LoadBrowserState(stateFile, cfg) = JsNull
       THEN /\ ensure' = [IdleEnsure EXCEPT !.pc = "login"]
            /\ login' = BeginLogin(TRUE, FALSE)
       ELSE /\ ensure' = [IdleEnsure EXCEPT !.pc = "launch"]
            /\ login' = IdleLogin
  /\ UNCHANGED <<fileVars, storeVars, ticketVars, gcall, race, globalVars, heap>>

\* if (!loginResult.success) return { success: false, error: loginResult.error }
ELoginDone ==
  /\ InEnsure("login")
  /\ login.pc = "done"
  /\ IF login.result.success
       THEN ensure' = EGo("launch")
       ELSE ensure' = EReturn(Failure(login.result.error))
  /\ login' = [login EXCEPT !.pc = "returned"]
  /\ UNCHANGED <<fileVars, storeVars, ticketVars, gcall, race, globalVars, heap, call, hist>>

\* const browser = await chromium.launch(...)
ELaunch ==
  /\ InEnsure("launch")
  /\ \/ /\ HasRoom(heap)
        /\ heap' = Launch(heap)
        /\ ensure' = [ensure EXCEPT !.pc = "context", !.browser = heap.nextId,
                                    !.launched = @ \cup {heap.nextId}]
     \/ /\ ensure' = ERejects
        /\ UNCHANGED heap
  /\ UNCHANGED <<fileVars, storeVars, ticketVars, gcall, race, globalVars, call, login, hist>>

\* stateToUse = loadBrowserState(); context = await browser.newContext(...)
EContext ==
  /\ InEnsure("context")
  /\ LET stateToUse == LoadBrowserState(stateFile, cfg) IN
     \/ /\ HasRoom(heap) /\ IsOpen(heap, ensure.browser)
        /\ heap' = NewContext(heap, ensure.browser,
                              IF stateToUse = JsNull THEN EmptyStorage
                              ELSE StorageOfState(stateToUse))
        /\ ensure' = [ensure EXCEPT !.pc = "page", !.context = heap.nextId]
     \/ /\ ensure' = ERejects
        /\ UNCHANGED heap
  /\ UNCHANGED <<fileVars, storeVars, ticketVars, gcall, race, globalVars, call, login, hist>>

\* const page = await context.newPage()
EPage ==
  /\ InEnsure("page")
  /\ \/ /\ HasRoom(heap) /\ IsOpen(heap, ensure.context)
        /\ heap' = NewPage(heap, ensure.context)
        /\ ensure' = [ensure EXCEPT !.pc = "nav", !.page = heap.nextId]
     \/ /\ ensure' = ERejects
        /\ UNCHANGED heap
  /\ UNCHANGED <<fileVars, storeVars, ticketVars, gcall, race, globalVars, call, login, hist>>

\* setViewportSize, goto(JIRA_CONFIG.dashboardUrl), waitForTimeout(2000)
ENav ==
  /\ InEnsure("nav")
  /\ \/ IsOpen(heap, ensure.page) /\ ensure' = EGo("check")
     \/ ensure' = ERejects
  /\ UNCHANGED <<fileVars, storeVars, ticketVars, gcall, race, globalVars, heap, call, login, hist>>

\* isLoggedIn = await checkLoggedIn(page) / stillLoggedIn = await checkLoggedIn(newPage)
ECheck ==
  /\ InEnsure("check")
  /\ \E loginHeading \in BOOLEAN, createButton \in BOOLEAN, fallbackButton \in BOOLEAN :
       /\ IF CheckLoggedIn(loginHeading, createButton, fallbackButton)
            THEN ensure' = EReturn(SuccessLive(ensure))
            ELSE ensure' = EGo("close")
       /\ hist' = [hist EXCEPT !.lastProbe = Seen(loginHeading, createButton, fallbackButton)]
  /\ UNCHANGED <<fileVars, storeVars, ticketVars, gcall, race, globalVars, heap, call, login>>

CloseAllButBrowser(h, b, p, c, failAt) == CloseContext(ClosePage(h, p), c)

\* await page.close(); await context.close(); await browser.close(); close
\* call number failAt throws (0: none does)
CloseAll(h, b, p, c, failAt) ==
  IF failAt = 1 THEN h
  ELSE IF failAt = 2 THEN ClosePage(h, p)
  ELSE IF failAt = 3 THEN CloseContext(ClosePage(h, p), c)
  ELSE CloseBrowser(CloseContext(ClosePage(h, p), c), b)

\* not logged in: close the browser, then log in (first pass) or give up (second)
EClose ==
  /\ InEnsure("close")
  /\ \E failAt \in 0..3 :
       /\ heap' = CloseAll(heap, ensure.browser, ensure.page, ensure.context, failAt)
       /\ IF failAt # 0
            THEN ensure' = ERejects /\ UNCHANGED <<login, hist>>
            ELSE IF ensure.phase = 1
              THEN /\ ensure' = [ensure EXCEPT !.pc = "login", !.phase = 2]
                   /\ login' = BeginLogin(TRUE, FALSE)
                   /\ hist' = RunHist(hist, stateFile)
              ELSE /\ ensure' = EReturn(Failure("Still not logged in after login attempt"))
                   /\ UNCHANGED <<login, hist>>
  /\ UNCHANGED <<fileVars, storeVars, ticketVars, gcall, race, globalVars, call>>

EnsureStep == ELoginDone \/ ELaunch \/ EContext \/ EPage \/ ENav \/ ECheck \/ EClose

----------------------------------------------------------------------------
(* Text: JavaScript strings of the ticket flow, as sequences of characters *)

WhiteSpace == {" ", "\t", "\n"}

RECURSIVE TrimStart(_)
TrimStart(s) ==
  IF s # <<>> /\ Head(s) \in WhiteSpace THEN TrimStart(Tail(s)) ELSE s
RECURSIVE TrimEnd(_)
TrimEnd(s) ==
  IF s # <<>> /\ s[Len(s)] \in WhiteSpace THEN TrimEnd(SubSeq(s, 1, Len(s) - 1)) ELSE s
\* String.prototype.trim()
Trim(s) == TrimEnd(TrimStart(s))

UpperCase ==
  <<"A", "B", "C", "D", "E", "F", "G", "H", "I", "J", "K", "L", "M",
    "N", "O", "P", "Q", "R", "S", "T", "U", "V", "W", "X", "Y", "Z">>
LowerCase ==
  <<"a", "b", "c", "d", "e", "f", "g", "h", "i", "j", "k", "l", "m",
    "n", "o", "p", "q", "r", "s", "t", "u", "v", "w", "x", "y", "z">>
ToLowerCaseChar(c) ==
  IF \E i \in 1..Len(UpperCase) : UpperCase[i] = c
    THEN LowerCase[CHOOSE i \in 1..Len(UpperCase) : UpperCase[i] = c]
    ELSE c
\* String.prototype.toLowerCase()
ToLowerCase(s) == [i \in 1..Len(s) |-> ToLowerCaseChar(s[i])]

Digits == <<"0", "1", "2", "3", "4", "5", "6", "7", "8", "9">>
IsDigit(c) == \E i \in 1..Len(Digits) : Digits[i] = c
DigitValue(c) == (CHOOSE i \in 1..Len(Digits) : Digits[i] = c) - 1
RECURSIVE LeadingDigits(_)
LeadingDigits(s) ==
  IF s # <<>> /\ IsDigit(Head(s)) THEN <<Head(s)>> \o LeadingDigits(Tail(s)) ELSE <<>>
RECURSIVE DecimalValue(_)
DecimalValue(ds) ==
  IF ds = <<>> THEN 0
  ELSE 10 * DecimalValue(SubSeq(ds, 1, Len(ds) - 1)) + DigitValue(ds[Len(ds)])

NaN == [t |-> "NaN"]
JsNumber(n) == [t |-> "number", n |-> n]
\* parseInt(s): leading white space is skipped, an optional sign and the
\* longest run of decimal digits are read, anything after it is ignored; NaN
\* when there is no digit to read
ParseInt(s) ==
  LET u == TrimStart(s)
      signed == u # <<>> /\ Head(u) \in {"-", "+"}
      ds == LeadingDigits(IF signed THEN Tail(u) ELSE u)
  IN IF ds = <<>> THEN NaN
     ELSE IF signed /\ Head(u) = "-" THEN JsNumber(0 - DecimalValue(ds))
     ELSE JsNumber(DecimalValue(ds))

\* `parseInt(choice) - 1`, then `selectedIndex >= 0 && selectedIndex < length`
\* (every comparison with NaN is false)
SelectedIndex(choice) ==
  IF ParseInt(choice) = NaN THEN NaN ELSE JsNumber(ParseInt(choice).n - 1)
IndexInRange(selectedIndex, length) ==
  selectedIndex # NaN /\ selectedIndex.n >= 0 /\ selectedIndex.n < length

JsString(s) == [t |-> "string", chars |-> s]
JsArray(items) == [t |-> "array", items |-> items]
\* truthiness of a property that is undefined, null, a string or an array
TruthyValue(v) == (v.t = "string" /\ v.chars # <<>>) \/ v.t \in {"array", "object"}

----------------------------------------------------------------------------
(* The option cache (config/jira-options.json) and the templates            *)
(* (config/jira-templates.json)                                             *)

Bug == <<"B", "u", "g">>
Task == <<"T", "a", "s", "k">>
Epic == <<"E", "p", "i", "c">>

\* the keys of the option cache, one per dropdown field
DropdownKeys ==
  {"workTypes", "components", "categoryReasons", "riskAssessmentLevels",
   "typeOfRequest", "taskClassifications"}

\* the cache key a dropdown field step reads and writes
CacheKey(field) ==
  CASE field = "workType" -> "workTypes"
    [] field = "components" -> "components"
    [] field = "categoryReason" -> "categoryReasons"
    [] field = "riskAssessmentLevel" -> "riskAssessmentLevels"
    [] field = "typeOfRequest" -> "typeOfRequest"
    [] field = "taskClassification" -> "taskClassifications"

\* the option texts the live form offers for each dropdown
LiveTexts(key) ==
  CASE key = "workTypes" -> <<Task, Bug>>
    [] key = "components" -> << <<"U", "I">>, <<"A", "P", "I">> >>
    [] key = "categoryReasons" -> << <<"N", "e", "w">>, <<"F", "i", "x">> >>
    [] key = "riskAssessmentLevels" -> << <<"L", "o", "w">>, <<"H", "i", "g", "h">> >>
    [] key = "typeOfRequest" -> << <<"R", "u", "n">>, <<"G", "r", "o", "w">> >>
    [] key = "taskClassifications" -> << <<"O", "p", "s">>, <<"D", "e", "v">> >>

\* an options object: a list of texts, or nothing, under each key
Options(lists) == [t |-> "object", lists |-> lists]
EmptyOptions == Options([k \in DropdownKeys |-> JsUndefined])

\* contents of the option cache file before the first run
OptionFiles ==
  { FileMissing, FileGarbage, FileJson(JsNull),
    FileJson(Options([EmptyOptions.lists EXCEPT !["workTypes"] = JsArray(<<>>),
                                                !["components"] = JsArray(LiveTexts("components"))])) }

\* loadSavedOptions(): the parsed file, {} when it is missing or unparsable
LoadSavedOptions(file) ==
  IF file.kind = "missing" THEN EmptyOptions
  ELSE IF ParseThrows(file) THEN EmptyOptions
  ELSE Parse(file)

SpreadOptionsNothing(saved) == EmptyOptions

\* `{ ...savedOptions }`: spreading null gives {}
SpreadOptions(saved) == IF saved.t = "object" THEN saved ELSE EmptyOptions

\* JSON.stringify(options, null, 2): keys that are undefined are left out
StringifyOptions(options) ==
  FileJson(Options([k \in DropdownKeys |->
                      IF options.lists[k].t = "array" THEN options.lists[k] ELSE JsUndefined]))

\* `Object.keys(optionsToSave).length > 0`
HasKeys(options) == \E k \in DropdownKeys : options.lists[k] # JsUndefined

UseSavedNever(saved, key) == FALSE

\* `savedOptions.X && savedOptions.X.length > 0`
UseSaved(saved, key) ==
  saved.lists[key].t = "array" /\ Len(saved.lists[key].items) > 0

\* the properties of a template; a form field is named after its property
TemplateProps ==
  {"workType", "summaryPrefix", "components", "descriptionForPartner", "categoryReason",
   "riskAssessmentLevel", "storyPoints", "typeOfRequest", "taskClassification",
   "keyStakeholder"}

Template(name, props) == [t |-> "object", name |-> name, props |-> props]

\* a template that gives every field a value the live form offers
BugTemplate ==
  Template(<<"b", "u", "g">>,
    [p \in TemplateProps |->
       CASE p = "workType" -> JsString(Bug)
         [] p = "summaryPrefix" -> JsString(<<"[", "B", "]">>)
         [] p = "components" -> JsArray(<< <<"A", "P", "I">> >>)
         [] p = "descriptionForPartner" -> JsString(<<"f", "i", "x">>)
         [] p = "categoryReason" -> JsString(<<"F", "i", "x">>)
         [] p = "riskAssessmentLevel" -> JsString(<<"L", "o", "w">>)
         [] p = "storyPoints" -> JsString(<<"5">>)
         [] p = "typeOfRequest" -> JsString(<<"R", "u", "n">>)
         [] p = "taskClassification" -> JsString(<<"D", "e", "v">>)
         [] p = "keyStakeholder" -> JsString(<<"A", "n", "n">>)])

\* a template whose dropdown values the form does not offer and whose other
\* properties are absent or empty
EpicTemplate ==
  Template(<<"e", "p", "i", "c">>,
    [p \in TemplateProps |->
       CASE p = "workType" -> JsString(Epic)
         [] p = "components" -> JsArray(<< <<"D", "B">> >>)
         [] p = "storyPoints" -> JsString(<<>>)
         [] OTHER -> JsUndefined])

\* contents of the templates file: `templates` is the list of its entries in
\* key order
TemplateFiles ==
  { FileMissing, FileGarbage, FileJson(JsNull),
    FileJson([t |-> "object", templates |-> JsUndefined]),
    FileJson([t |-> "object", templates |-> JsArray(<<BugTemplate, EpicTemplate>>)]) }

\* loadTemplates(): `templates.templates || {}`; {} when the file is missing,
\* unparsable or null (the property read throws inside the try)
LoadTemplates(file) ==
  IF file.kind = "missing" THEN <<>>
  ELSE IF ParseThrows(file) THEN <<>>
  ELSE IF Parse(file).t # "object" THEN <<>>
  ELSE IF TruthyValue(Parse(file).templates) THEN Parse(file).templates.items
  ELSE <<>>

\* selectTemplate(templates): no prompt when there is no template
SelectTemplatePrompts(templates) == Len(templates) > 0
SelectTemplate(templates, choice) ==
  IF Len(templates) = 0 THEN JsNull
  ELSE IF Trim(choice) # <<>> /\ IndexInRange(SelectedIndex(choice), Len(templates))
    THEN templates[SelectedIndex(choice).n + 1]
  ELSE JsNull

\* `selectedTemplate && selectedTemplate.prop`
TemplateValue(selectedTemplate, prop) ==
  IF selectedTemplate.t = "object" THEN selectedTemplate.props[prop] ELSE JsUndefined

----------------------------------------------------------------------------
(* Dropdown options *)

Option(index, text) == [t |-> "option", index |-> index, text |-> text]

\* `savedOptions.X.map((text, index) => ({ index: index + 1, text, value: text }))`
IndexedOptions(texts) == [i \in 1..Len(texts) |-> Option(i, texts[i])]

\* what getAutocompleteOptions finds on the page: the call may throw before
\* it reads the listbox, the listbox may be missing, and it holds option
\* elements (their text contents) or only text (its white-space separated words)
ListboxThrows == [kind |-> "throws"]
NoListbox == [kind |-> "missing"]
Listbox(elements, words) == [kind |-> "listbox", elements |-> elements, words |-> words]

LiveListboxes(key) ==
  {ListboxThrows, Listbox(LiveTexts(key), <<>>)}
    \cup (IF key = "workTypes"
            THEN { NoListbox,
                   Listbox(<<Bug, Task>>, <<>>),
                   Listbox(<<Task, <<" ">>, <<" ", "B", "u", "g", " ">> >>, <<>>),
                   Listbox(<<>>, <<Task, Bug>>),
                   Listbox(<<>>, <<>>) }
            ELSE {})

\* getAutocompleteOptions(page, selector): each option element gets its
\* position as index, then the ones without text are dropped; [] on any error
GetAutocompleteOptions(listbox) ==
  IF listbox.kind = "throws" THEN <<>>
  ELSE IF listbox.kind = "missing" THEN <<>>
  ELSE IF listbox.elements # <<>>
    THEN SelectSeq([i \in 1..Len(listbox.elements) |-> Option(i, Trim(listbox.elements[i]))],
                   LAMBDA opt : opt.text # <<>>)
  ELSE IF listbox.words # <<>> THEN IndexedOptions(listbox.words)
  ELSE <<>>

\* `options.map(opt => opt.text)`
Texts(options) == [i \in 1..Len(options) |-> options[i].text]

\* `options.findIndex(opt => opt.text === text)`, counted from 1; 0 for -1
FindIndex(options, text) ==
  IF \E i \in 1..Len(options) : options[i].text = text
    THEN CHOOSE i \in 1..Len(options) :
           /\ options[i].text = text
           /\ \A j \in 1..(i - 1) : options[j].text # text
    ELSE 0

TemplateOptionNever(options, templateValue) == JsNull

\* the option the template names, null when it names none
TemplateOption(options, templateValue) ==
  IF TruthyValue(templateValue) /\ templateValue.t = "string"
       /\ FindIndex(options, templateValue.chars) > 0
    THEN options[FindIndex(options, templateValue.chars)]
    ELSE JsNull

\* the option the operator's answer picks, null when the answer picks none;
\* checkBlank is the `if (choice.trim())` the work-type prompt does not have
ChosenOption(options, choice, checkBlank) ==
  IF checkBlank /\ Trim(choice) = <<>> THEN JsNull
  ELSE IF IndexInRange(SelectedIndex(choice), Len(options))
    THEN options[SelectedIndex(choice).n + 1]
  ELSE JsNull

FreeTextValueKeepInitial(initial, userInput) ==
  IF initial # <<>> THEN initial ELSE Trim(userInput)

\* `if (userInput.trim()) { value = userInput.trim(); }`
FreeTextValue(initial, userInput) ==
  IF Trim(userInput) # <<>> THEN Trim(userInput) ELSE initial

\* finalSummary of the summary step
FinalSummary(summaryPrefix, currentSummary, newSummary) ==
  IF Trim(newSummary) # <<>>
    THEN IF summaryPrefix # <<>> THEN summaryPrefix \o <<" ">> \o Trim(newSummary)
         ELSE Trim(newSummary)
  ELSE IF currentSummary # <<>> THEN currentSummary
  ELSE IF summaryPrefix # <<>> THEN Trim(summaryPrefix)
  ELSE <<>>

ShouldCreateUnlessNo(createChoice) ==
  ToLowerCase(Trim(createChoice)) \notin {<<"n", "o">>, <<"n">>}

\* `createChoice.trim().toLowerCase() === 'yes' || ... === 'y'`
ShouldCreate(createChoice) ==
  \/ ToLowerCase(Trim(createChoice)) = <<"y", "e", "s">>
  \/ ToLowerCase(Trim(createChoice)) = <<"y">>

\* process.env.JIRA_DEFAULT_STAKEHOLDER || "Oka Lwin"
DefaultStakeholder == <<"O", "k", "a", " ", "L", "w", "i", "n">>

----------------------------------------------------------------------------
(* What the operator types *)

\* answers to a "select (1-n)" prompt
ChoiceAnswers ==
  { <<>>, <<" ">>, <<"1">>, <<" ", "2">>, <<"2", "x">>, <<"3">>, <<"0">>, <<"x">> }

\* answers to a free-text prompt
TextAnswers == { <<>>, <<" ">>, <<" ", "8", " ">> }

\* answers to the final confirmation
ConfirmAnswers ==
  { <<>>, <<" ">>, <<"y">>, <<"Y">>, <<"y", "e", "s">>, <<"Y", "E", "S">>,
    <<" ", "Y", "e", "s", " ">>, <<"\t", "y", "\n">>,
    <<"n">>, <<"n", "o">>, <<"y", "e">>, <<"y", "e", "s", "!">>, <<"y", " ", "e", "s">>,
    <<"o", "k">> }

\* what the summary input holds when the dialog opens
CurrentSummaries == { <<>>, <<"O", "l", "d">> }

----------------------------------------------------------------------------
(* createJiraTicket *)

\* dropdowns per run that are without a cached list and yield no list either
\* (the field is not on the form, or its listbox gives no option)
MaxUnavailable == 1

\* what a field step did: whether the field was visible, whether its live
\* dropdown was scraped, the options it offered, the template's value for the
\* field, whether the operator was prompted and with what answer, the value
\* chosen (undefined when the field is skipped), the index of the option
\* picked, and whether the value was filled in without an exception
NoStep ==
  [field |-> "none", visible |-> FALSE, scraped |-> FALSE, options |-> <<>>,
   templateValue |-> JsUndefined, prompted |-> FALSE, answer |-> <<>>,
   value |-> JsUndefined, index |-> 0, filled |-> FALSE]

\* the field is not on the form: logged, nothing else
NotFound(field, templateValue) ==
  [NoStep EXCEPT !.field = field, !.templateValue = templateValue]

IdleTicket ==
  [pc |-> "idle", outcome |-> "none",
   savedState |-> JsNull, browser |-> 0, context |-> 0, page |-> 0,
   selectedTemplate |-> JsNull, templatePrompted |-> FALSE,
   savedOptions |-> EmptyOptions, optionsToSave |-> EmptyOptions,
   step |-> NoStep,
   asked |-> FALSE, createChoice |-> <<>>, submitted |-> FALSE,
   rlClosed |-> FALSE]

\* the scrape of a dropdown
NoScrape == [t |-> "none"]
Scrape(options) == [t |-> "scrape", options |-> options]
NoScrapes == [k \in DropdownKeys |-> NoScrape]

NoTicketHist ==
  [startFile |-> FileMissing,  \* the option cache when the run started
   scrapes |-> NoScrapes,      \* what the run in progress has scraped
   unavailable |-> 0,          \* dropdowns of the run in progress that gave no list
   writes |-> 0,               \* writes of the option cache in this run
   rerun |-> FALSE]            \* a run has ended before this one

\* every field step leads to the save step
NextPcSave(field) == "save"

NextPcSkipsStakeholder(field) ==
  CASE field = "workType" -> "summary"
    [] field = "summary" -> "components"
    [] field = "components" -> "descriptionForPartner"
    [] field = "descriptionForPartner" -> "categoryReason"
    [] field = "categoryReason" -> "riskAssessmentLevel"
    [] field = "riskAssessmentLevel" -> "storyPoints"
    [] field = "storyPoints" -> "typeOfRequest"
    [] field = "typeOfRequest" -> "taskClassification"
    [] field = "taskClassification" -> "save"
    [] field = "keyStakeholder" -> "save"

\* the order of the ten field steps, then the save
NextPc(field) ==
  CASE field = "workType" -> "summary"
    [] field = "summary" -> "components"
    [] field = "components" -> "descriptionForPartner"
    [] field = "descriptionForPartner" -> "categoryReason"
    [] field = "categoryReason" -> "riskAssessmentLevel"
    [] field = "riskAssessmentLevel" -> "storyPoints"
    [] field = "storyPoints" -> "typeOfRequest"
    [] field = "typeOfRequest" -> "taskClassification"
    [] field = "taskClassification" -> "keyStakeholder"
    [] field = "keyStakeholder" -> "save"

TicketEndKeepsReadline(t, outcome) ==
  [IdleTicket EXCEPT !.pc = "done", !.outcome = outcome,
                     !.browser = t.browser, !.context = t.context, !.page = t.page,
                     !.asked = t.asked, !.createChoice = t.createChoice,
                     !.submitted = t.submitted]

\* every exit runs the finally block, rl.close(); the locals go with the
\* frame, the browser stays open
TicketEnd(t, outcome) ==
  [IdleTicket EXCEPT !.pc = "done", !.outcome = outcome,
                     !.browser = t.browser, !.context = t.context, !.page = t.page,
                     !.asked = t.asked, !.createChoice = t.createChoice,
                     !.submitted = t.submitted,
                     !.rlClosed = TRUE]
\* the catch block: the error is logged, a screenshot is tried
TicketCaught(t) == TicketEnd(t, "error")

\* the history once the action has run: what the run scraped is kept only
\* while the run is in progress
HistAfter(h) ==
  IF ticket'.pc = "done"
    THEN [h EXCEPT !.scrapes = NoScrapes, !.unavailable = 0, !.rerun = TRUE]
    ELSE h

\* const savedState = loadBrowserState(); if (!savedState) return;
StartTicket ==
  /\ call = "idle"
  /\ ticket.pc \in {"idle", "done"}
  /\ LET savedState == LoadBrowserState(stateFile, cfg)
     IN ticket' = IF savedState = JsNull THEN TicketEnd(IdleTicket, "noSavedState")
                  ELSE [IdleTicket EXCEPT !.pc = "launch", !.savedState = savedState]
  /\ heap' = EmptyHeap
  /\ thist' = HistAfter([thist EXCEPT !.startFile = optionsFile, !.writes = 0])
  /\ UNCHANGED <<optionsFile, fileVars, storeVars, globalVars, gcall, race, call, login, ensure, hist>>

\* chromium.launch, browser.newContext({ storageState: savedState }),
\* context.newPage, page.setViewportSize: failAt is the call that throws
TLaunch ==
  /\ ticket.pc = "launch"
  /\ \E failAt \in 0..4 :
       LET b == heap.nextId
           h1 == Launch(heap)
           c == h1.nextId
           h2 == NewContext(h1, b, StorageOfState(ticket.savedState))
           p == h2.nextId
           h3 == NewPage(h2, c)
       IN CASE failAt = 1 ->
                 /\ heap' = heap
                 /\ ticket' = TicketCaught(ticket)
            [] failAt = 2 ->
                 /\ heap' = h1
                 /\ ticket' = TicketCaught([ticket EXCEPT !.browser = b])
            [] failAt = 3 ->
                 /\ heap' = h2
                 /\ ticket' = TicketCaught([ticket EXCEPT !.browser = b, !.context = c])
            [] failAt = 4 ->
                 /\ heap' = h3
                 /\ ticket' = TicketCaught([ticket EXCEPT !.browser = b, !.context = c, !.page = p])
            [] failAt = 0 ->
                 /\ heap' = h3
                 /\ ticket' = [ticket EXCEPT !.pc = "open", !.browser = b, !.context = c, !.page = p]
  /\ thist' = HistAfter(thist)
  /\ UNCHANGED <<optionsFile, fileVars, storeVars, globalVars, gcall, race, call, login, ensure, hist>>

\* page.goto(dashboardUrl), the create button (primary, else fallback) waited
\* for and clicked, the dialog waited for
TOpenDialog ==
  /\ ticket.pc = "open"
  /\ \E throws \in BOOLEAN :
       ticket' = IF throws THEN TicketCaught(ticket) ELSE [ticket EXCEPT !.pc = "template"]
  /\ thist' = HistAfter(thist)
  /\ UNCHANGED <<optionsFile, heap, fileVars, storeVars, globalVars, gcall, race, call, login, ensure, hist>>

\* loadTemplates(), selectTemplate(templates), loadSavedOptions(),
\* optionsToSave = { ...savedOptions }
TSelectTemplate ==
  /\ ticket.pc = "template"
  /\ \E file \in TemplateFiles, choice \in ChoiceAnswers :
       LET templates == LoadTemplates(file)
           savedOptions == LoadSavedOptions(optionsFile)
       IN ticket' = [ticket EXCEPT !.pc = "workType",
                                   !.selectedTemplate = SelectTemplate(templates, choice),
                                   !.templatePrompted = SelectTemplatePrompts(templates),
                                   !.savedOptions = savedOptions,
                                   !.optionsToSave = SpreadOptions(savedOptions)]
  /\ UNCHANGED <<optionsFile, thist, heap, fileVars, storeVars, globalVars, gcall, race, call, login, ensure, hist>>

\* the options of a dropdown: the cached list when there is one, else a scrape
FieldOptions(savedOptions, key, listbox) ==
  IF UseSaved(savedOptions, key) THEN IndexedOptions(savedOptions.lists[key].items)
  ELSE GetAutocompleteOptions(listbox)

\* `if (options.length > 0) optionsToSave.X = options.map(opt => opt.text)`
CollectOptions(optionsToSave, savedOptions, key, options) ==
  IF ~UseSaved(savedOptions, key) /\ options # <<>>
    THEN [optionsToSave EXCEPT !.lists[key] = JsArray(Texts(options))]
    ELSE optionsToSave

\* the listboxes a dropdown step can meet: none matters when the cached list
\* is used
Listboxes(savedOptions, key) ==
  IF UseSaved(savedOptions, key) THEN {NoListbox} ELSE LiveListboxes(key)

\* the dropdown is without a cached list and the step gets none for it
Unavailable(savedOptions, key, visible, options) ==
  /\ savedOptions.t = "object"
  /\ ~UseSaved(savedOptions, key)
  /\ ~visible \/ options = <<>>

\* the field is not visible: logged, the flow goes on
DropdownNotFound(field) ==
  /\ Unavailable(ticket.savedOptions, CacheKey(field), FALSE, <<>>)
       => thist.unavailable < MaxUnavailable
  /\ ticket' = [ticket EXCEPT
                  !.pc = NextPc(field),
                  !.step = NotFound(field, TemplateValue(ticket.selectedTemplate, field))]
  /\ thist' = IF Unavailable(ticket.savedOptions, CacheKey(field), FALSE, <<>>)
                THEN [thist EXCEPT !.unavailable = @ + 1]
                ELSE thist

\* savedOptions is null: reading a property of it throws a TypeError
SavedOptionsThrow(field) ==
  /\ ticket.savedOptions.t # "object"
  /\ ticket' = TicketCaught(ticket)
  /\ thist' = HistAfter(thist)

\* what a dropdown step leaves behind: the frame with the collected options
\* and the step, or the catch block when filling in the value threw
DropdownDone(field, options, step, throws) ==
  LET key == CacheKey(field)
      frame == [ticket EXCEPT
                  !.optionsToSave = CollectOptions(@, ticket.savedOptions, key, options),
                  !.step = step]
  IN /\ Unavailable(ticket.savedOptions, key, TRUE, options)
          => thist.unavailable < MaxUnavailable
     /\ ticket' = IF throws THEN TicketCaught(frame)
                  ELSE [frame EXCEPT !.pc = NextPc(field)]
     /\ thist' = HistAfter(
                   IF UseSaved(ticket.savedOptions, key) THEN thist
                   ELSE [thist EXCEPT
                           !.scrapes[key] = Scrape(options),
                           !.unavailable = IF options = <<>> THEN @ + 1 ELSE @])

\* a single-choice dropdown step (work type, category reason, risk assessment
\* level, type of request, task classification): the template's option if it
\* names one, else the operator's choice; the chosen text is filled in
SingleSelectStep(field, checkBlank) ==
  /\ ticket.pc = field
  /\ \/ DropdownNotFound(field)
     \/ SavedOptionsThrow(field)
     \/ /\ ticket.savedOptions.t = "object"
        /\ \E listbox \in Listboxes(ticket.savedOptions, CacheKey(field)) :
             LET options == FieldOptions(ticket.savedOptions, CacheKey(field), listbox)
                 templateValue == TemplateValue(ticket.selectedTemplate, field)
                 fromTemplate == TemplateOption(options, templateValue)
                 prompted == options # <<>> /\ fromTemplate = JsNull
             IN \E choice \in (IF prompted THEN ChoiceAnswers ELSE {<<>>}) :
                  LET selected == IF options = <<>> THEN JsNull
                                  ELSE IF fromTemplate # JsNull THEN fromTemplate
                                  ELSE ChosenOption(options, choice, checkBlank)
                  IN \E throws \in (IF selected # JsNull THEN BOOLEAN ELSE {FALSE}) :
                       DropdownDone(field, options,
                         [field |-> field, visible |-> TRUE,
                          scraped |-> ~UseSaved(ticket.savedOptions, CacheKey(field)),
                          options |-> options, templateValue |-> templateValue,
                          prompted |-> prompted, answer |-> choice,
                          value |-> IF selected = JsNull THEN JsUndefined
                                    ELSE JsString(selected.text),
                          index |-> IF selected = JsNull THEN 0 ELSE selected.index,
                          filled |-> selected # JsNull /\ ~throws],
                         throws)
  /\ UNCHANGED <<optionsFile, heap, fileVars, storeVars, globalVars, gcall, race, call, login, ensure, hist>>

\* 1. Work type
TWorkType == SingleSelectStep("workType", FALSE)

\* 2. Summary: the operator is always asked; the template only gives a prefix
TSummary ==
  /\ ticket.pc = "summary"
  /\ \E visible \in BOOLEAN :
       LET templateValue == TemplateValue(ticket.selectedTemplate, "summaryPrefix")
           summaryPrefix == IF TruthyValue(templateValue) THEN templateValue.chars ELSE <<>>
       IN IF ~visible
            THEN ticket' = [ticket EXCEPT !.pc = NextPc("summary"),
                                          !.step = NotFound("summary", templateValue)]
            ELSE \E currentSummary \in CurrentSummaries, newSummary \in TextAnswers :
                   LET finalSummary == FinalSummary(summaryPrefix, currentSummary, newSummary)
                   IN \E throws \in (IF finalSummary # <<>> THEN BOOLEAN ELSE {FALSE}) :
                        LET step == [NoStep EXCEPT
                                       !.field = "summary", !.visible = TRUE,
                                       !.templateValue = templateValue,
                                       !.prompted = TRUE, !.answer = newSummary,
                                       !.value = IF finalSummary = <<>> THEN JsUndefined
                                                 ELSE JsString(finalSummary),
                                       !.filled = finalSummary # <<>> /\ ~throws]
                        IN ticket' = IF throws THEN TicketCaught([ticket EXCEPT !.step = step])
                                     ELSE [ticket EXCEPT !.pc = NextPc("summary"), !.step = step]
  /\ thist' = HistAfter(thist)
  /\ UNCHANGED <<optionsFile, heap, fileVars, storeVars, globalVars, gcall, race, call, login, ensure, hist>>

\* `selectedTemplate.components.filter(c => options.some(opt => opt.text === c))`
TemplateComponents(options, templateValue) ==
  IF templateValue.t = "array"
    THEN SelectSeq(templateValue.items,
                   LAMBDA name : \E i \in 1..Len(options) : options[i].text = name)
    ELSE <<>>

\* 3. Components: the template's components that are options, else one
\* component the operator chooses; each is filled in
TComponents ==
  /\ ticket.pc = "components"
  /\ \/ DropdownNotFound("components")
     \/ SavedOptionsThrow("components")
     \/ /\ ticket.savedOptions.t = "object"
        /\ \E listbox \in Listboxes(ticket.savedOptions, "components") :
             LET options == FieldOptions(ticket.savedOptions, "components", listbox)
                 templateValue == TemplateValue(ticket.selectedTemplate, "components")
                 fromTemplate == TemplateComponents(options, templateValue)
                 prompted == options # <<>> /\ fromTemplate = <<>>
             IN \E choice \in (IF prompted THEN ChoiceAnswers ELSE {<<>>}) :
                  LET chosen == ChosenOption(options, choice, TRUE)
                      selectedComponents ==
                        IF options = <<>> THEN <<>>
                        ELSE IF fromTemplate # <<>> THEN fromTemplate
                        ELSE IF chosen # JsNull THEN <<chosen.text>>
                        ELSE <<>>
                  IN \E throws \in (IF selectedComponents # <<>> THEN BOOLEAN ELSE {FALSE}) :
                       DropdownDone("components", options,
                         [field |-> "components", visible |-> TRUE,
                          scraped |-> ~UseSaved(ticket.savedOptions, "components"),
                          options |-> options, templateValue |-> templateValue,
                          prompted |-> prompted, answer |-> choice,
                          value |-> IF selectedComponents = <<>> THEN JsUndefined
                                    ELSE JsArray(selectedComponents),
                          index |-> IF prompted /\ chosen # JsNull THEN chosen.index ELSE 0,
                          filled |-> selectedComponents # <<>> /\ ~throws],
                         throws)
  /\ UNCHANGED <<optionsFile, heap, fileVars, storeVars, globalVars, gcall, race, call, login, ensure, hist>>

\* a free-text step: the value starts as the template's value (or the given
\* default), the operator is always asked, and a non-blank answer replaces it
FreeTextStep(field, default) ==
  /\ ticket.pc = field
  /\ \E visible \in BOOLEAN :
       LET templateValue == TemplateValue(ticket.selectedTemplate, field)
           initial == IF TruthyValue(templateValue) THEN templateValue.chars ELSE default
       IN IF ~visible
            THEN ticket' = [ticket EXCEPT !.pc = NextPc(field),
                                          !.step = NotFound(field, templateValue)]
            ELSE \E userInput \in TextAnswers :
                   LET value == FreeTextValue(initial, userInput)
                   IN \E throws \in (IF value # <<>> THEN BOOLEAN ELSE {FALSE}) :
                        LET step == [NoStep EXCEPT
                                       !.field = field, !.visible = TRUE,
                                       !.templateValue = templateValue,
                                       !.prompted = TRUE, !.answer = userInput,
                                       !.value = IF value = <<>> THEN JsUndefined
                                                 ELSE JsString(value),
                                       !.filled = value # <<>> /\ ~throws]
                        IN ticket' = IF throws THEN TicketCaught([ticket EXCEPT !.step = step])
                                     ELSE [ticket EXCEPT !.pc = NextPc(field), !.step = step]
  /\ thist' = HistAfter(thist)
  /\ UNCHANGED <<optionsFile, heap, fileVars, storeVars, globalVars, gcall, race, call, login, ensure, hist>>

\* 4. Description for partner
TPartnerDesc == FreeTextStep("descriptionForPartner", <<>>)
\* 5. Category reason
TCategoryReason == SingleSelectStep("categoryReason", TRUE)
\* 6. Risk assessment level
TRiskAssessment == SingleSelectStep("riskAssessmentLevel", TRUE)
\* 7. Story points
TStoryPoints == FreeTextStep("storyPoints", <<>>)
\* 8. Type of request
TTypeOfRequest == SingleSelectStep("typeOfRequest", TRUE)
\* 9. Task classification
TTaskClassification == SingleSelectStep("taskClassification", TRUE)
\* 10. Key stakeholder: the default stakeholder when the template names none
TKeyStakeholder == FreeTextStep("keyStakeholder", DefaultStakeholder)

\* `if (Object.keys(optionsToSave).length > 0) saveOptions(optionsToSave)`:
\* a failing mkdirSync or writeFileSync is logged and nothing is written
TSaveOptions ==
  /\ ticket.pc = "save"
  /\ \/ /\ HasKeys(ticket.optionsToSave)
        /\ optionsFile' = StringifyOptions(ticket.optionsToSave)
        /\ thist' = [thist EXCEPT !.writes = @ + 1]
     \/ /\ HasKeys(ticket.optionsToSave)
        /\ UNCHANGED <<optionsFile, thist>>
     \/ /\ ~HasKeys(ticket.optionsToSave)
        /\ UNCHANGED <<optionsFile, thist>>
  /\ ticket' = [ticket EXCEPT !.pc = "confirm", !.step = NoStep]
  /\ UNCHANGED <<heap, fileVars, storeVars, globalVars, gcall, race, call, login, ensure, hist>>

\* the final confirmation; the form's Create button is waited for and
\* clicked only when shouldCreate, and an exception of either call is caught
TConfirm ==
  /\ ticket.pc = "confirm"
  /\ \E createChoice \in ConfirmAnswers :
       \E click \in (IF ShouldCreate(createChoice)
                       THEN {"clicked", "waitForThrows", "clickThrows"}
                       ELSE {"none"}) :
         ticket' = TicketEnd([ticket EXCEPT !.asked = TRUE,
                                            !.createChoice = createChoice,
                                            !.submitted = click = "clicked"],
                             "completed")
  /\ thist' = HistAfter(thist)
  /\ UNCHANGED <<optionsFile, heap, fileVars, storeVars, globalVars, gcall, race, call, login, ensure, hist>>

----------------------------------------------------------------------------
(* The global browser triple: getGlobalBrowser, getGlobalContext,           *)
(* getGlobalPage and cleanupGlobalBrowser called directly                   *)

\* direct calls of the getters and the cleanup in one process
MaxGlobalCalls == 6

\* the last direct call: which function, what it returned (0 when it threw or
\* returns nothing), whether it threw, `mark`, the id the engine would give
\* its next object when cleanupGlobalBrowser was last called, and the number
\* of direct calls so far
NoGlobalCall == [op |-> "none", ret |-> 0, threw |-> FALSE, mark |-> 1, calls |-> 0]

\* the globals and the engine, as the getters read and write them
Globals(h, gb, gc, gp) == [heap |-> h, gb |-> gb, gc |-> gc, gp |-> gp, ret |-> 0, threw |-> FALSE]

GetGlobalBrowserAlways(g, launch) ==
  IF launch /\ HasRoom(g.heap)
    THEN [g EXCEPT !.heap = Launch(@), !.gb = g.heap.nextId, !.ret = g.heap.nextId]
  ELSE [g EXCEPT !.ret = 0, !.threw = TRUE]

\* getGlobalBrowser(): `if (!globalBrowser) globalBrowser = await chromium.launch(...)`;
\* a launch that throws is rethrown and leaves the global null
GetGlobalBrowser(g, launch) ==
  IF g.gb # 0 THEN [g EXCEPT !.ret = g.gb]
  ELSE IF launch /\ HasRoom(g.heap)
    THEN [g EXCEPT !.heap = Launch(@), !.gb = g.heap.nextId, !.ret = g.heap.nextId]
  ELSE [g EXCEPT !.ret = 0, !.threw = TRUE]

\* what newContext can do: start from a storage state, or throw
NewContextOutcomes(saved) ==
  {[throws |-> FALSE, storage |-> s] : s \in ContextStorages(saved)}
    \cup {[throws |-> TRUE, storage |-> EmptyStorage]}

\* getGlobalContext(): getGlobalBrowser() first, then
\* `if (!globalContext) globalContext = await browser.newContext(...)`
GetGlobalContext(g, launch, storage) ==
  LET b == GetGlobalBrowser(g, launch) IN
  IF b.threw THEN b
  ELSE IF b.gc # 0 THEN [b EXCEPT !.ret = b.gc]
  ELSE IF ~storage.throws /\ HasRoom(b.heap) /\ IsOpen(b.heap, b.gb)
    THEN [b EXCEPT !.heap = NewContext(@, b.gb, storage.storage), !.gc = b.heap.nextId,
                   !.ret = b.heap.nextId]
  ELSE [b EXCEPT !.ret = 0, !.threw = TRUE]

\* getGlobalPage(): getGlobalContext() first, then
\* `if (!globalPage) { globalPage = await context.newPage(); await globalPage.setViewportSize(...) }`;
\* when setViewportSize throws the page is already the global page
GetGlobalPage(g, launch, storage, page) ==
  LET c == GetGlobalContext(g, launch, storage) IN
  IF c.threw THEN c
  ELSE IF c.gp # 0 THEN [c EXCEPT !.ret = c.gp]
  ELSE IF page # "newPageThrows" /\ HasRoom(c.heap) /\ IsOpen(c.heap, c.gc)
    THEN [c EXCEPT !.heap = NewPage(@, c.gc), !.gp = c.heap.nextId,
                   !.ret = IF page = "ok" THEN c.heap.nextId ELSE 0,
                   !.threw = page # "ok"]
  ELSE [c EXCEPT !.ret = 0, !.threw = TRUE]

\* cleanupGlobalBrowser(): close and null the page, the context, the browser;
\* close call number failAt throws (0: none does) and the catch ends the
\* function with the remaining globals as they are
CleanupGlobalBrowser(g, failAt) ==
  LET s0 == [g EXCEPT !.ret = 0, !.threw = FALSE]
      s1 == IF s0.gp = 0 THEN [stop |-> FALSE, g |-> s0]
            ELSE IF failAt = 1 THEN [stop |-> TRUE, g |-> s0]
            ELSE [stop |-> FALSE, g |-> [s0 EXCEPT !.heap = ClosePage(@, s0.gp), !.gp = 0]]
      s2 == IF s1.stop \/ s1.g.gc = 0 THEN s1
            ELSE IF failAt = 2 THEN [s1 EXCEPT !.stop = TRUE]
            ELSE [s1 EXCEPT !.g = [s1.g EXCEPT !.heap = CloseContext(@, s1.g.gc), !.gc = 0]]
      s3 == IF s2.stop \/ s2.g.gb = 0 THEN s2
            ELSE IF failAt = 3 THEN [s2 EXCEPT !.stop = TRUE]
            ELSE [s2 EXCEPT !.g = [s2.g EXCEPT !.heap = CloseBrowser(@, s2.g.gb), !.gb = 0]]
  IN s3.g

CurrentGlobals == Globals(heap, globalBrowser, globalContext, globalPage)

\* the globals, the engine and the record of the call after a direct call
GlobalCallDone(op, g, mark) ==
  /\ gcall.calls < MaxGlobalCalls
  /\ heap' = g.heap
  /\ globalBrowser' = g.gb /\ globalContext' = g.gc /\ globalPage' = g.gp
  /\ gcall' = [op |-> op, ret |-> g.ret, threw |-> g.threw, mark |-> mark,
               calls |-> gcall.calls + 1]
  /\ UNCHANGED <<fileVars, storeVars, ticketVars, race, call, login, ensure, hist>>

GGetBrowser ==
  \E launch \in BOOLEAN :
    GlobalCallDone("getGlobalBrowser", GetGlobalBrowser(CurrentGlobals, launch), gcall.mark)

GGetContext ==
  \E launch \in BOOLEAN, storage \in NewContextOutcomes(LoadBrowserState(stateFile, cfg)) :
    GlobalCallDone("getGlobalContext", GetGlobalContext(CurrentGlobals, launch, storage),
                   gcall.mark)

GGetPage ==
  \E launch \in BOOLEAN, storage \in NewContextOutcomes(LoadBrowserState(stateFile, cfg)),
     page \in {"ok", "newPageThrows", "viewportThrows"} :
    GlobalCallDone("getGlobalPage", GetGlobalPage(CurrentGlobals, launch, storage, page),
                   gcall.mark)

GCleanup ==
  \E failAt \in 0..3 :
    GlobalCallDone("cleanupGlobalBrowser", CleanupGlobalBrowser(CurrentGlobals, failAt),
                   heap.nextId)

----------------------------------------------------------------------------
(* Overlapping calls of the global getters: each `await` is a point where   *)
(* the other caller's code can run                                          *)

Callers == {1, 2}
Getters == {"getGlobalBrowser", "getGlobalContext", "getGlobalPage"}

\* a caller's async call: the exported getter it called, where it is
\* suspended, the locals `browser` and `context` of the getters on its
\* stack, and what its promise settled with
IdleCaller ==
  [fn |-> "none", pc |-> "idle", browser |-> 0, context |-> 0, ret |-> 0, threw |-> FALSE]
NoRace == [c \in Callers |-> IdleCaller]

Settle(f, v) == [f EXCEPT !.pc = "done", !.ret = v]
Reject(f) == [f EXCEPT !.pc = "done", !.threw = TRUE]

\* `return globalBrowser` reached with browser b: getGlobalBrowser's promise
\* settles; a getGlobalContext above it resumes at 1101 in a later turn
BrowserReturned(f, b) ==
  IF f.fn = "getGlobalBrowser" THEN Settle([f EXCEPT !.browser = b], b)
  ELSE [f EXCEPT !.pc = "context", !.browser = b]
\* `return globalContext` reached with context c
ContextReturned(f, c) ==
  IF f.fn = "getGlobalContext" THEN Settle([f EXCEPT !.context = c], c)
  ELSE [f EXCEPT !.pc = "page", !.context = c]

\* the call and its synchronous part: down to `if (!globalBrowser)` and, when
\* there is none, the start of chromium.launch
RCall(c) ==
  /\ race[c].pc = "idle"
  /\ \E fn \in Getters :
       LET f == [race[c] EXCEPT !.fn = fn] IN
       race' = [race EXCEPT ![c] = IF globalBrowser # 0 THEN BrowserReturned(f, globalBrowser)
                                   ELSE [f EXCEPT !.pc = "launching"]]
  /\ UNCHANGED <<fileVars, storeVars, ticketVars, gcall, loginVars>>

\* `globalBrowser = await chromium.launch(...)` resumes, or the launch throws
RLaunched(c) ==
  /\ race[c].pc = "launching"
  /\ \/ /\ HasRoom(heap)
        /\ heap' = Launch(heap)
        /\ globalBrowser' = heap.nextId
        /\ race' = [race EXCEPT ![c] = BrowserReturned(@, heap.nextId)]
     \/ /\ race' = [race EXCEPT ![c] = Reject(@)]
        /\ UNCHANGED <<heap, globalBrowser>>
  /\ UNCHANGED <<fileVars, storeVars, ticketVars, gcall, globalContext, globalPage,
                 call, login, ensure, hist>>

\* getGlobalContext resumes after `await getGlobalBrowser()`: `if (!globalContext)`
\* and, when there is none, the start of browser.newContext
RContext(c) ==
  /\ race[c].pc = "context"
  /\ race' = [race EXCEPT ![c] = IF globalContext # 0 THEN ContextReturned(@, globalContext)
                                 ELSE [@ EXCEPT !.pc = "contexting"]]
  /\ UNCHANGED <<fileVars, storeVars, ticketVars, gcall, loginVars>>

\* `globalContext = await browser.newContext(...)` resumes, or both attempts throw
RContexted(c) ==
  /\ race[c].pc = "contexting"
  /\ \/ /\ HasRoom(heap) /\ IsOpen(heap, race[c].browser)
        /\ \E s \in ContextStorages(LoadBrowserState(stateFile, cfg)) :
             heap' = NewContext(heap, race[c].browser, s)
        /\ globalContext' = heap.nextId
        /\ race' = [race EXCEPT ![c] = ContextReturned(@, heap.nextId)]
     \/ /\ race' = [race EXCEPT ![c] = Reject(@)]
        /\ UNCHANGED <<heap, globalContext>>
  /\ UNCHANGED <<fileVars, storeVars, ticketVars, gcall, globalBrowser, globalPage,
                 call, login, ensure, hist>>

\* getGlobalPage resumes after `await getGlobalContext()`: `if (!globalPage)`
\* and, when there is none, the start of context.newPage
RPage(c) ==
  /\ race[c].pc = "page"
  /\ race' = [race EXCEPT ![c] = IF globalPage # 0 THEN Settle(@, globalPage)
                                 ELSE [@ EXCEPT !.pc = "paging"]]
  /\ UNCHANGED <<fileVars, storeVars, ticketVars, gcall, loginVars>>

\* `globalPage = await context.newPage()` resumes and setViewportSize starts
\* on that page, or newPage throws
RPaged(c) ==
  /\ race[c].pc = "paging"
  /\ \/ /\ HasRoom(heap) /\ IsOpen(heap, race[c].context)
        /\ heap' = NewPage(heap, race[c].context)
        /\ globalPage' = heap.nextId
        /\ race' = [race EXCEPT ![c].pc = "viewport"]
     \/ /\ race' = [race EXCEPT ![c] = Reject(@)]
        /\ UNCHANGED <<heap, globalPage>>
  /\ UNCHANGED <<fileVars, storeVars, ticketVars, gcall, globalBrowser, globalContext,
                 call, login, ensure, hist>>

\* `await globalPage.setViewportSize(...)` resumes and `return globalPage`
\* reads the global as it is now, or setViewportSize throws
RViewport(c) ==
  /\ race[c].pc = "viewport"
  /\ \/ race' = [race EXCEPT ![c] = Settle(@, globalPage)]
     \/ race' = [race EXCEPT ![c] = Reject(@)]
  /\ UNCHANGED <<fileVars, storeVars, ticketVars, gcall, loginVars>>

----------------------------------------------------------------------------
(* The login flows against the session-state file *)

SessionFile(storage, dashboardUrl, baseUrl, userEmail) ==
  FileJson(StateObject(storage, Metadata(Earlier, dashboardUrl, baseUrl, userEmail)))

SavedStorage == [cookies |-> {"cloud.session.token"}, origins |-> {}]

\* the session-state files a login run can start from
LoginFiles ==
  { FileMissing, FileGarbage,
    FileJson(StateObject(SavedStorage, NoMetadata)),
    SessionFile(SavedStorage, BoardUrl, DefaultBaseUrl, DefaultEmail),
    SessionFile(SavedStorage, NULL, DefaultBaseUrl, DefaultEmail),
    SessionFile(SavedStorage, BoardUrl, DefaultBaseUrl, "someone@else.com") }

\* the globals an importing caller can have set up before the call: nothing,
\* or the result of getGlobalBrowser, getGlobalContext or getGlobalPage
GlobalSetups ==
  { [heap |-> EmptyHeap, gb |-> 0, gc |-> 0, gp |-> 0],
    [heap |-> Launch(EmptyHeap), gb |-> 1, gc |-> 0, gp |-> 0],
    [heap |-> NewContext(Launch(EmptyHeap), 1, EmptyStorage), gb |-> 1, gc |-> 2, gp |-> 0],
    [heap |-> NewPage(NewContext(Launch(EmptyHeap), 1, EmptyStorage), 2),
     gb |-> 1, gc |-> 2, gp |-> 3] }

LoginInit ==
  /\ cfg = DefaultConfig
  /\ stateFile \in LoginFiles
  /\ loaded = JsUndefined /\ written = JsUndefined /\ storeOp = "none"
  /\ storeLog = NoLog
  /\ gcall = NoGlobalCall
  /\ race = NoRace
  /\ \E g \in GlobalSetups :
       heap = g.heap /\ globalBrowser = g.gb /\ globalContext = g.gc /\ globalPage = g.gp
  /\ call = "idle"
  /\ login = IdleLogin
  /\ ensure = IdleEnsure
  /\ hist = NoHist
  /\ optionsFile = FileMissing
  /\ ticket = IdleTicket
  /\ thist = NoTicketHist

LoginNext == StartLogin \/ StartEnsure \/ LoginStep \/ EnsureStep

----------------------------------------------------------------------------
(* The ticket flow against the session-state file and the option cache *)

\* the session files a ticket run may find
TicketStateFiles ==
  { FileMissing, FileGarbage,
    SessionFile(SavedStorage, BoardUrl, DefaultBaseUrl, "someone@else.com"),
    SessionFile(SavedStorage, BoardUrl, DefaultBaseUrl, DefaultEmail) }

TicketInit ==
  /\ cfg = DefaultConfig
  /\ stateFile \in TicketStateFiles
  /\ loaded = JsUndefined /\ written = JsUndefined /\ storeOp = "none"
  /\ storeLog = NoLog
  /\ gcall = NoGlobalCall
  /\ race = NoRace
  /\ globalBrowser = 0 /\ globalContext = 0 /\ globalPage = 0
  /\ heap = EmptyHeap
  /\ call = "idle"
  /\ login = IdleLogin
  /\ ensure = IdleEnsure
  /\ hist = NoHist
  /\ optionsFile \in OptionFiles
  /\ ticket = IdleTicket
  /\ thist = NoTicketHist

TicketNext ==
  \/ StartTicket
  \/ TLaunch
  \/ TOpenDialog
  \/ TSelectTemplate
  \/ TWorkType
  \/ TSummary
  \/ TComponents
  \/ TPartnerDesc
  \/ TCategoryReason
  \/ TRiskAssessment
  \/ TStoryPoints
  \/ TTypeOfRequest
  \/ TTaskClassification
  \/ TKeyStakeholder
  \/ TSaveOptions
  \/ TConfirm

----------------------------------------------------------------------------
(* The global getters against the session-state file *)

GlobalInit ==
  /\ cfg = DefaultConfig
  /\ stateFile \in LoginFiles
  /\ loaded = JsUndefined /\ written = JsUndefined /\ storeOp = "none"
  /\ storeLog = NoLog
  /\ gcall = NoGlobalCall
  /\ race = NoRace
  /\ heap = EmptyHeap /\ globalBrowser = 0 /\ globalContext = 0 /\ globalPage = 0
  /\ call = "idle"
  /\ login = IdleLogin
  /\ ensure = IdleEnsure
  /\ hist = NoHist
  /\ optionsFile = FileMissing
  /\ ticket = IdleTicket
  /\ thist = NoTicketHist

GlobalNext == GGetBrowser \/ GGetContext \/ GGetPage \/ GCleanup

----------------------------------------------------------------------------
(* Two overlapping callers of the global getters *)

RaceInit ==
  /\ cfg = DefaultConfig
  /\ stateFile \in LoginFiles
  /\ loaded = JsUndefined /\ written = JsUndefined /\ storeOp = "none"
  /\ storeLog = NoLog
  /\ gcall = NoGlobalCall
  /\ race = NoRace
  /\ \E g \in GlobalSetups :
       heap = g.heap /\ globalBrowser = g.gb /\ globalContext = g.gc /\ globalPage = g.gp
  /\ call = "idle"
  /\ login = IdleLogin
  /\ ensure = IdleEnsure
  /\ hist = NoHist
  /\ optionsFile = FileMissing
  /\ ticket = IdleTicket
  /\ thist = NoTicketHist

RaceNext ==
  \E c \in Callers :
    \/ RCall(c) \/ RLaunched(c) \/ RContext(c) \/ RContexted(c)
    \/ RPage(c) \/ RPaged(c) \/ RViewport(c)

----------------------------------------------------------------------------
(* The store on its own: saves and loads against any file content *)

StoreInit ==
  /\ cfg \in Configs
  /\ stateFile \in SessionFiles
  /\ loaded = JsUndefined
  /\ written = JsUndefined
  /\ storeOp = "none"
  /\ storeLog = NoLog
  /\ gcall = NoGlobalCall
  /\ race = NoRace
  /\ globalBrowser = 0 /\ globalContext = 0 /\ globalPage = 0
  /\ heap = EmptyHeap
  /\ call = "idle"
  /\ login = IdleLogin
  /\ ensure = IdleEnsure
  /\ hist = NoHist
  /\ optionsFile = FileMissing
  /\ ticket = IdleTicket
  /\ thist = NoTicketHist

\* saveBrowserState(browser, page) where browser.contexts()[0] exists and
\* nothing throws
StoreSave ==
  \E s \in StorageStates, u \in Urls \cup {NULL}, now \in Timestamps :
    /\ written' = EnhancedState(s, u, now, cfg)
    /\ stateFile' = SavedFile(s, u, now, cfg)
    /\ storeOp' = "saved"
    /\ storeLog' = SaveBrowserStateLog("saved")
    /\ UNCHANGED <<cfg, loaded, loginVars, ticketVars, gcall, race>>

\* saveBrowserState where storageState(), mkdirSync or writeFileSync throws
\* (caught, warning), or the browser has no context (nothing is done): the
\* file is untouched
StoreSaveFails ==
  /\ \E how \in {"threw", "noContext"} :
       /\ storeOp' = "saveFailed"
       /\ storeLog' = SaveBrowserStateLog(how)
  /\ UNCHANGED <<cfg, stateFile, loaded, written, loginVars, ticketVars, gcall, race>>

StoreLoad ==
  /\ loaded' = LoadBrowserState(stateFile, cfg)
  /\ storeLog' = LoadBrowserStateLog(stateFile, cfg)
  /\ storeOp' = IF storeOp = "saved" THEN "loadedAfterSave" ELSE "loaded"
  /\ UNCHANGED <<cfg, stateFile, written, loginVars, ticketVars, gcall, race>>

StoreNext == StoreSave \/ StoreSaveFails \/ StoreLoad

vars ==
  <<cfg, stateFile, loaded, written, storeOp, storeLog, globalBrowser, globalContext,
    globalPage, gcall, race, heap, call, login, ensure, hist, optionsFile, ticket, thist>>

SpecStore == StoreInit /\ [][StoreNext]_vars

SpecLogin == LoginInit /\ [][LoginNext]_vars

\* loginToJira called on its own, with no session-state file or with a
\* session saved for the configured account, and with no global triple or a
\* complete one
FairInit ==
  /\ LoginInit
  /\ stateFile \in {FileMissing, SessionFile(SavedStorage, BoardUrl, DefaultBaseUrl, DefaultEmail)}
  /\ globalBrowser # 0 => globalPage # 0
FairNext == StartLogin \/ LoginStep
\* every engine call returns or fails in the end: a step of loginToJira that
\* can be taken is taken
SpecLoginFair == FairInit /\ [][FairNext]_vars /\ WF_vars(LoginStep)

SpecTicket == TicketInit /\ [][TicketNext]_vars

SpecGlobal == GlobalInit /\ [][GlobalNext]_vars

SpecRace == RaceInit /\ [][RaceNext]_vars

----------------------------------------------------------------------------
(* Claims about the session-state store (SpecStore) *)

Loaded == storeOp \in {"loaded", "loadedAfterSave"}

FileHasState == stateFile.kind = "json" /\ stateFile.value.t = "object"
FileHasMetadata == FileHasState /\ stateFile.value.metadata.t = "object"
FileIdentityIsConfigured ==
  /\ FileHasMetadata
  /\ stateFile.value.metadata.userEmail = cfg.email
  /\ stateFile.value.metadata.baseUrl = cfg.baseUrl

\* C1 as stated: loadBrowserState returns a session only if the account email
\* and base URL stored in the file equal the configured ones, and none in
\* every other case.
C1_SessionOnlyIfIdentityStored ==
  Loaded => (loaded # JsNull <=> FileIdentityIsConfigured)

\* C1 amended: loadBrowserState returns a session exactly when the file parses
\* to a state that either carries no metadata (the legacy format, returned
\* unvalidated) or carries metadata whose email and base URL equal the
\* configured ones; what it returns is the parsed file; a file whose metadata
\* names another email or base URL, or none, yields none.
C1_SessionOnlyIfMatchingOrLegacy ==
  Loaded =>
    /\ loaded # JsNull <=> (FileHasState /\ (~FileHasMetadata \/ FileIdentityIsConfigured))
    /\ loaded # JsNull => loaded = stateFile.value
    /\ (FileHasMetadata /\ ~FileIdentityIsConfigured) => loaded = JsNull

\* a load of a file whose metadata names another account gave none
C1_Witness ==
  /\ Loaded
  /\ FileHasMetadata
  /\ stateFile.value.metadata.baseUrl = cfg.baseUrl
  /\ stateFile.value.metadata.userEmail \notin {cfg.email, UNDEFINED}
  /\ loaded = JsNull

----------------------------------------------------------------------------
(* Claims about the login flows (SpecLogin) *)

LoginReturned == call # "idle" /\ login.pc = "done"

DeadlineError == "URL did not change to redventures.atlassian.net - login may have failed"

C4_MarkerGoesStraight ==
  hist.firstProbe = "marker" =>
    /\ login.pc \in {"done", "returned"}
    /\ login.result.success
    /\ hist.fills = 0 /\ ~hist.waited /\ ~hist.polled

\* the dashboard probe (checkLoggedIn) was the first probe and saw the marker
C4_Witness ==
  /\ LoginReturned /\ hist.firstProbe = "marker" /\ hist.path = "marker"
  /\ login.result.success /\ login.result.page # 0

\* C5 as stated: every run that returns success with saveState true has
\* called saveBrowserState, whichever way it was authenticated.
C5_EverySuccessSaves ==
  (LoginReturned /\ login.result.success /\ login.saveState) => hist.saveCalls >= 1

\* C5 amended: a run that returns success after a fresh login (identity entry,
\* then a location that includes the domain) with saveState true has called
\* saveBrowserState exactly once, and that call wrote the file unless the
\* browser had no open context or a storage or file-system call failed; a run
\* that returns success by resuming a saved session or because the marker was
\* already visible has not called it and has left the file as it was.
C5_FreshLoginSaves ==
  (LoginReturned /\ login.result.success) =>
    /\ hist.path \in {"fresh", "resume", "marker"}
    /\ hist.path = "fresh" =>
         /\ hist.fills = 1 /\ hist.observed
         /\ hist.saveCalls = (IF login.saveState THEN 1 ELSE 0)
         /\ hist.writes <= hist.saveCalls
         /\ hist.writes = 1 =>
              /\ stateFile.kind = "json"
              /\ stateFile.value.metadata.savedAt = Now
              /\ stateFile.value.metadata.userEmail = cfg.email
              /\ stateFile.value.metadata.baseUrl = cfg.baseUrl
         /\ hist.writes = 0 => stateFile = hist.startFile
    /\ hist.path \in {"resume", "marker"} =>
         /\ hist.saveCalls = 0
         /\ stateFile = hist.startFile

\* a fresh login succeeded and its save wrote the file
C5_Witness ==
  /\ LoginReturned /\ login.result.success /\ login.saveState
  /\ hist.path = "fresh" /\ hist.writes = 1
  /\ stateFile # hist.startFile

\* C6: within one top-level call of loginToJira or ensureLoggedIn the
\* identity is entered at most once.
C6_AtMostOneCycle == hist.cycles <= 1

----------------------------------------------------------------------------
(* Claims about the ticket-creation flow (SpecTicket) *)

\* the answers to the confirmation that read yes or y once the white space
\* around them is dropped and case is ignored
Affirmative ==
  { <<"y">>, <<"Y">>, <<"y", "e", "s">>, <<"Y", "E", "S">>,
    <<" ", "Y", "e", "s", " ">>, <<"\t", "y", "\n">> }

\* C7: the form's Create button has been clicked only in a run that reached
\* the confirmation prompt and got one of the affirmative answers; with any
\* other answer, the empty one included, nothing is submitted.
C7_SubmitOnlyOnYes ==
  ticket.submitted =>
    /\ ticket.pc = "done" /\ ticket.outcome = "completed"
    /\ ticket.asked
    /\ ticket.createChoice \in Affirmative

\* the operator answered " Yes " and the form was submitted
C7_Witness ==
  /\ ticket.submitted
  /\ ticket.createChoice = <<" ", "Y", "e", "s", " ">>

\* the list the option cache file holds under a key (undefined when the file
\* is missing, unparsable or not an object)
FileList(file, key) ==
  IF file.kind = "json" /\ file.value.t = "object" THEN file.value.lists[key]
  ELSE JsUndefined
\* the run started with a non-empty cached list for the key
StartHas(key) ==
  FileList(thist.startFile, key).t = "array" /\ FileList(thist.startFile, key).items # <<>>
ScrapedTexts(key) ==
  [i \in 1..Len(thist.scrapes[key].options) |-> thist.scrapes[key].options[i].text]
DropdownFields ==
  {"workType", "components", "categoryReason", "riskAssessmentLevel", "typeOfRequest",
   "taskClassification"}
KeyOf(field) ==
  CASE field = "workType" -> "workTypes"
    [] field = "components" -> "components"
    [] field = "categoryReason" -> "categoryReasons"
    [] field = "riskAssessmentLevel" -> "riskAssessmentLevels"
    [] field = "typeOfRequest" -> "typeOfRequest"
    [] field = "taskClassification" -> "taskClassifications"

ListHas(list, text) ==
  list.t = "array" /\ \E i \in 1..Len(list.items) : list.items[i] = text
\* the run started without cached work types, scraped 'Bug' as the option
\* with index 2, and its template names 'Bug'
FreshBugAtTwo ==
  /\ ~StartHas("workTypes")
  /\ thist.scrapes["workTypes"] # NoScrape
  /\ \E i \in 1..Len(thist.scrapes["workTypes"].options) :
       thist.scrapes["workTypes"].options[i] = Option(2, Bug)
  /\ \A i \in 1..Len(thist.scrapes["workTypes"].options) :
       thist.scrapes["workTypes"].options[i] # Option(1, Bug)
  /\ ticket.selectedTemplate.t = "object"
  /\ ticket.selectedTemplate.props["workType"] = JsString(Bug)

\* C9 as stated, its last part: after the save step of such a fresh run the
\* option cache holds 'Bug' among the work types.
C9_CacheHoldsBugAfterwards ==
  (ticket.pc = "confirm" /\ FreshBugAtTwo) =>
    ListHas(FileList(optionsFile, "workTypes"), Bug)

\* C9 amended: when the template's workType is the text of one of the options
\* the work-type step offers, the first such option is chosen and the operator
\* is not prompted; in a fresh run where 'Bug' is scraped as the option with
\* index 2, the option chosen has index 2; after the save step the cache
\* holds 'Bug' among the work types if the write succeeded, and is as it was
\* at the start if it did not.
C9_TemplateWorkTypeChosen ==
  /\ (/\ ticket.step.field = "workType"
      /\ ticket.step.templateValue.t = "string"
      /\ \E i \in 1..Len(ticket.step.options) :
           ticket.step.options[i].text = ticket.step.templateValue.chars) =>
       /\ ~ticket.step.prompted
       /\ ticket.step.value = ticket.step.templateValue
       /\ \E i \in 1..Len(ticket.step.options) :
            /\ ticket.step.options[i] = Option(ticket.step.index, ticket.step.templateValue.chars)
            /\ \A j \in 1..(i - 1) :
                 ticket.step.options[j].text # ticket.step.templateValue.chars
  /\ (ticket.step.field = "workType" /\ FreshBugAtTwo) =>
       /\ ~ticket.step.prompted
       /\ ticket.step.index = 2
       /\ ticket.step.value = JsString(Bug)
  /\ (ticket.pc = "confirm" /\ FreshBugAtTwo) =>
       /\ thist.writes = 1 => ListHas(FileList(optionsFile, "workTypes"), Bug)
       /\ thist.writes # 1 => optionsFile = thist.startFile

\* a fresh run scraped Task, Bug and chose Bug, index 2, from the template
C9_Witness ==
  /\ ticket.step.field = "workType" /\ FreshBugAtTwo
  /\ ticket.step.scraped /\ ~ticket.step.prompted
  /\ ticket.step.options = <<Option(1, Task), Option(2, Bug)>>
  /\ ticket.step.index = 2

FreeTextFields == {"descriptionForPartner", "storyPoints", "keyStakeholder"}
SingleSelectFields ==
  {"workType", "categoryReason", "riskAssessmentLevel", "typeOfRequest", "taskClassification"}

\* C10 as stated, for the free-text fields: when the template has a value for
\* the field, the operator is not asked and that value is the one used.
C10_TemplateValueWins ==
  (/\ ticket.step.field \in FreeTextFields
   /\ ticket.step.visible
   /\ ticket.step.templateValue.t = "string"
   /\ ticket.step.templateValue.chars # <<>>) =>
     /\ ~ticket.step.prompted
     /\ ticket.step.value = ticket.step.templateValue

\* what the operator's answer to a "select (1-n)" prompt picks: the number
\* it starts with, white space before it and anything after it ignored
Picks(answer) ==
  CASE answer = <<"1">> -> 1
    [] answer \in { <<" ", "2">>, <<"2", "x">> } -> 2
    [] answer = <<"3">> -> 3
    [] OTHER -> 0
\* a free-text answer without the white space around it
Typed(answer) == IF answer = <<" ", "8", " ">> THEN <<"8">> ELSE <<>>
HasValue(v) == (v.t = "string" /\ v.chars # <<>>) \/ v.t = "array"

\* C10 amended: a field that is not visible, and a dropdown that offers no
\* option, is skipped without a prompt whatever the template says. For a
\* free-text field (description for partner, story points, key stakeholder)
\* the operator is always asked and a non-blank answer is used in place of
\* the template's value; a blank answer leaves the template's value, else the
\* default stakeholder for the key stakeholder, else the field is skipped.
\* For the summary the operator is always asked. For a single-choice dropdown
\* the template's value is used without a prompt only when it is the text of
\* an offered option; otherwise the operator is asked and the option the
\* answer picks is used, or the field is skipped. For the components the
\* template's components that are offered are used without a prompt, and the
\* operator is asked only when there is none.
C10_ValueUsed ==
  LET st == ticket.step
      tv == ticket.step.templateValue
      offered(text) == \E i \in 1..Len(st.options) : st.options[i].text = text
  IN /\ (st.field # "none" /\ ~st.visible) => ~st.prompted /\ st.value = JsUndefined
     /\ (st.field \in DropdownFields /\ st.visible /\ st.options = <<>>) =>
          ~st.prompted /\ st.value = JsUndefined
     /\ (st.field \in FreeTextFields /\ st.visible) =>
          /\ st.prompted
          /\ st.value = IF Typed(st.answer) # <<>> THEN JsString(Typed(st.answer))
                        ELSE IF HasValue(tv) THEN tv
                        ELSE IF st.field = "keyStakeholder" THEN JsString(DefaultStakeholder)
                        ELSE JsUndefined
     /\ (st.field = "summary" /\ st.visible) => st.prompted
     /\ (st.field \in SingleSelectFields /\ st.visible /\ st.options # <<>>) =>
          IF tv.t = "string" /\ offered(tv.chars)
            THEN ~st.prompted /\ st.value = tv
            ELSE /\ st.prompted
                 /\ st.value = IF Picks(st.answer) \in 1..Len(st.options)
                                 THEN JsString(st.options[Picks(st.answer)].text)
                                 ELSE JsUndefined
     /\ (st.field = "components" /\ st.visible /\ st.options # <<>>) =>
          IF tv.t = "array" /\ \E i \in 1..Len(tv.items) : offered(tv.items[i])
            THEN /\ ~st.prompted
                 /\ st.value.t = "array"
                 /\ \A i \in 1..Len(st.value.items) :
                      offered(st.value.items[i])
                        /\ \E j \in 1..Len(tv.items) : tv.items[j] = st.value.items[i]
            ELSE /\ st.prompted
                 /\ st.value = IF Picks(st.answer) \in 1..Len(st.options)
                                 THEN JsArray(<<st.options[Picks(st.answer)].text>>)
                                 ELSE JsUndefined

\* the template gave 5 story points, the operator was asked all the same
\* and typed 8, and 8 is the value used
C10_Witness ==
  /\ ticket.step.field = "storyPoints" /\ ticket.step.visible
  /\ ticket.step.templateValue = JsString(<<"5">>)
  /\ ticket.step.prompted
  /\ ticket.step.answer = <<" ", "8", " ">>
  /\ ticket.step.value = JsString(<<"8">>)

\* the ten field steps in the order the form is filled, then the save step
FieldOrder ==
  <<"workType", "summary", "components", "descriptionForPartner", "categoryReason",
    "riskAssessmentLevel", "storyPoints", "typeOfRequest", "taskClassification",
    "keyStakeholder", "save">>
FieldPosition(field) == CHOOSE i \in 1..10 : FieldOrder[i] = field
InFieldStep == \E i \in 1..10 : ticket.pc = FieldOrder[i]

\* C11: a field step that finds its field visible under no selector fills
\* nothing, asks nothing and hands over to the next field step (after the
\* tenth, to the save step) with the run still in progress and nothing
\* collected for the option cache; no field step leads anywhere but to its
\* successor or to the end of the run.
C11_NotFoundIsSkipped ==
  [][InFieldStep =>
       /\ (ticket'.step.field = ticket.pc /\ ~ticket'.step.visible) =>
            /\ ticket'.pc = FieldOrder[FieldPosition(ticket.pc) + 1]
            /\ ticket'.outcome = "none"
            /\ ~ticket'.step.prompted /\ ~ticket'.step.filled
            /\ ticket'.step.value = JsUndefined
            /\ ticket'.optionsToSave = ticket.optionsToSave
       /\ ticket'.pc \notin {"done", FieldOrder[FieldPosition(ticket.pc) + 1]} => ticket' = ticket
     ]_vars

\* the work type field was not found and the run stands at the summary step;
\* later the key stakeholder field is not found and the run stands at the save
C11_Witness ==
  /\ ticket.pc = "save"
  /\ ticket.step.field = "keyStakeholder"
  /\ ~ticket.step.visible
  /\ thist.unavailable = 1

----------------------------------------------------------------------------
(* Further claims about the session-state store (SpecStore) *)

FileUnparsable == stateFile.kind = "garbage" \/ (stateFile.kind = "json" /\ stateFile.value.t = "null")
FileIdentityDiffers == FileHasState /\ FileHasMetadata /\ ~FileIdentityIsConfigured

\* C12: a load that meets a missing file, a file that cannot be parsed or a
\* stored identity that differs from the configured one returns none and has
\* written a warning line to the console.
C12_NoneWithWarning ==
  (Loaded /\ (stateFile.kind = "missing" \/ FileUnparsable \/ FileIdentityDiffers)) =>
    /\ loaded = JsNull
    /\ storeLog \in {WarnLog, WarningLog}

----------------------------------------------------------------------------
(* Further claims about the login flows (SpecLogin) *)

\* C13: a login run whose call of saveBrowserState met an exception (reading
\* the storage state, creating the directory or writing the file) has logged
\* a warning, has written nothing, and still returns success; the
\* session-state file is as it was when the run started.
C13_FailedSaveIsNotFatal ==
  (LoginReturned /\ hist.saveOutcome = "threw") =>
    /\ login.result.success
    /\ login.result = SuccessClosed
    /\ storeLog = WarnLog
    /\ hist.saveCalls = 1 /\ hist.writes = 0
    /\ stateFile = hist.startFile

\* a fresh login with no session-state file: the save threw, the run
\* returned success and there is still no file
C13_Witness ==
  /\ LoginReturned
  /\ hist.saveOutcome = "threw"
  /\ hist.fills = 1
  /\ login.result.success
  /\ stateFile = FileMissing

----------------------------------------------------------------------------
(* Claims about the global browser triple (SpecGlobal) *)

\* the engine's objects made since cleanupGlobalBrowser was last called
MadeSince == {i \in Ids : gcall.mark <= i /\ i < heap.nextId}
BrowsersMade == {i \in MadeSince : heap.ctxBrowser[i] = 0 /\ heap.pageCtx[i] = 0}
ContextsMade == {i \in MadeSince : heap.ctxBrowser[i] # 0}
PagesMade == {i \in MadeSince : heap.pageCtx[i] # 0}

\* at most one browser, one context and one page have been made since the
\* last cleanup, and each of them is the global one
AtMostOneTriple ==
  /\ Cardinality(BrowsersMade) <= 1 /\ BrowsersMade \subseteq {globalBrowser}
  /\ Cardinality(ContextsMade) <= 1 /\ ContextsMade \subseteq {globalContext}
  /\ Cardinality(PagesMade) <= 1 /\ PagesMade \subseteq {globalPage}

\* a getter called while its instance exists returns that very instance,
\* leaves the global as it is and makes no browser, context or page
ExistingInstanceIsReturned ==
  /\ (gcall'.op = "getGlobalBrowser" /\ globalBrowser # 0) =>
       /\ gcall'.ret = globalBrowser /\ ~gcall'.threw
       /\ heap' = heap /\ globalBrowser' = globalBrowser
  /\ (gcall'.op = "getGlobalContext" /\ globalBrowser # 0 /\ globalContext # 0) =>
       /\ gcall'.ret = globalContext /\ ~gcall'.threw
       /\ heap' = heap /\ globalContext' = globalContext
  /\ (gcall'.op = "getGlobalPage" /\ globalBrowser # 0 /\ globalContext # 0 /\ globalPage # 0) =>
       /\ gcall'.ret = globalPage /\ ~gcall'.threw
       /\ heap' = heap /\ globalPage' = globalPage

\* C14: whatever getters and cleanups have been called one after the other,
\* at most one browser, one context and one page have been made since the last
\* cleanup, each of them the global one; and a getter called while its
\* instance exists returns that same instance without making another.
C14_OneGlobalTriple == []AtMostOneTriple /\ [][ExistingInstanceIsReturned]_vars

\* a second triple, made after a cleanup that closed the first: the page of
\* the first triple is closed, getGlobalPage has returned the global page, and
\* one browser, one context and one page have been made since
C14_Witness ==
  /\ gcall.op = "getGlobalPage" /\ ~gcall.threw
  /\ gcall.ret = globalPage /\ globalPage # 0
  /\ gcall.mark > 3
  /\ Cardinality(BrowsersMade) = 1 /\ Cardinality(ContextsMade) = 1
  /\ Cardinality(PagesMade) = 1

----------------------------------------------------------------------------
(* Claims about what loginToJira returns (SpecLogin) *)

\* the error messages a failed login can carry
LoginErrors ==
  { "error.message", DeadlineError, "Error waiting for URL change",
    "Could not find username input field" }

\* C15: every call of loginToJira that has ended has resolved to a result
\* whose success is a boolean; a result with success = false carries an error
\* message and no browser, page or context, and a call in progress holds no
\* result yet.
C15_AlwaysAResult ==
  /\ LoginReturned =>
       /\ login.result.success \in BOOLEAN
       /\ ~login.result.success =>
            /\ login.result.error \in LoginErrors
            /\ login.result.browser = 0 /\ login.result.page = 0
            /\ login.result.context = 0
       /\ login.result.success => login.result.error = "<none>"
  /\ (call # "idle" /\ login.pc \notin {"idle", "done", "returned"}) =>
       login.result = NoResult

\* an exception after the identity was entered ended in the outer catch: the
\* call returned success = false with the exception's message
C15_Witness ==
  /\ LoginReturned
  /\ ~login.result.success
  /\ login.result.error = "error.message"
  /\ hist.fills = 1

----------------------------------------------------------------------------
(* Claims about the life of the session-state file (SpecLogin) *)

\* the file is never removed, and it changes only in the save step of a login
\* run that has entered the identity and read a location of the authenticated
\* domain; the new content is the storage state of the browser's first
\* context with fresh metadata, nothing of the old content is kept
FileChangesOnlyOnObservedLogin ==
  /\ stateFile.kind # "missing" => stateFile'.kind # "missing"
  /\ stateFile' # stateFile =>
       /\ call \in {"login", "ensure"} /\ login.pc = "save"
       /\ hist.fills = 1 /\ hist.observed
       /\ login.saveState
       /\ hist'.writes = 1 /\ hist.writes = 0
       /\ stateFile'.kind = "json" /\ stateFile'.value.t = "object"
       /\ stateFile'.value.metadata =
            Metadata(Now, login.currentUrl, cfg.baseUrl, cfg.email)
       /\ \E c \in Ids :
            /\ heap.ctxBrowser[c] = login.browser
            /\ StorageOfState(stateFile'.value) = heap.storageOf[c]

\* a login that has returned failure has left the file as it found it
FailedLoginLeavesFile ==
  (LoginReturned /\ ~login.result.success) => stateFile = hist.startFile

\* C16 as stated: the file is never removed and changes only when a login has
\* been observed successful, failed logins leave it unchanged, and every
\* login that returns success has overwritten the file.
C16_EverySuccessOverwrites ==
  /\ [][FileChangesOnlyOnObservedLogin]_vars
  /\ [](FailedLoginLeavesFile
        /\ ((LoginReturned /\ login.result.success) => hist.writes = 1))

\* C16 amended: the file is never removed and changes only in the save step
\* of a login run that has entered the identity and observed the
\* authenticated domain, where the whole file is replaced; failed logins
\* leave it unchanged, and so do logins that succeed by resuming a saved
\* session or on the marker, with saveState false, or whose save failed.
C16_FileLifecycle ==
  /\ [][FileChangesOnlyOnObservedLogin]_vars
  /\ [](FailedLoginLeavesFile
        /\ ((LoginReturned /\ login.result.success /\ hist.writes = 0) =>
              stateFile = hist.startFile)
        /\ ((LoginReturned /\ hist.writes = 1) =>
              /\ login.result.success /\ hist.path = "fresh"
              /\ hist.saveOutcome = "saved"))

\* a login found a session file of another account, logged in afresh, and
\* replaced the file with one for the configured account
C16_Witness ==
  /\ LoginReturned /\ login.result.success
  /\ hist.writes = 1
  /\ hist.startFile.kind = "json" /\ hist.startFile.value.t = "object"
  /\ hist.startFile.value.metadata.t = "object"
  /\ hist.startFile.value.metadata.userEmail # cfg.email
  /\ stateFile.value.metadata.userEmail = cfg.email

----------------------------------------------------------------------------
(* Claims about resuming a saved session (SpecLogin) *)

\* the session the file held for the configured identity when the run began
StartSession == LoadBrowserState(hist.startFile, cfg)

\* C17: a run that found a saved session for the configured identity, opened
\* its saved dashboard and saw a create button there has returned success
\* with its browser, context and page, all open, without entering the
\* identity, waiting, polling or saving; and a run tries to resume only when
\* such a session with a saved dashboard exists.
C17_ValidSessionResumes ==
  /\ hist.resume # "none" => HasSavedDashboard(StartSession)
  /\ (call # "idle" /\ hist.resume = "visible") =>
       /\ LoginReturned \/ login.pc = "returned"
       /\ hist.path = "resume"
       /\ hist.fills = 0 /\ ~hist.waited /\ ~hist.polled /\ hist.saveCalls = 0
       /\ LoginReturned =>
            /\ login.result.success
            /\ IsOpen(heap, login.result.browser)
            /\ IsOpen(heap, login.result.context)
            /\ IsOpen(heap, login.result.page)
            /\ heap.pageCtx[login.result.page] = login.result.context

\* a session saved for the configured account was resumed in a browser of
\* its own: the context carries the saved cookies
C17_Witness ==
  /\ LoginReturned /\ hist.resume = "visible"
  /\ login.result.success /\ login.result.page # 0
  /\ ~login.useGlobalBrowser
  /\ heap.storageOf[login.result.context] = SavedStorage

\* C18: a resume attempt that shows no create button on the saved dashboard,
\* or fails to open it, does not end the call: the step hands over to the
\* opening of the configured dashboard with no result set, and a failure such
\* a run returns later comes from the fresh-login steps.
C18_ExpiredSessionFallsThrough ==
  /\ [][(InLogin("resume") /\ hist'.resume \in {"hidden", "failed"}) =>
          /\ login'.pc = "nav" /\ login'.result = NoResult
          /\ call' = call]_vars
  /\ []((hist.resume \in {"hidden", "failed"} /\ call # "idle") =>
          /\ HasSavedDashboard(StartSession)
          /\ login.pc # "resume"
          /\ hist.path # "resume")

\* the saved session had expired: the run went on, entered the identity and
\* ended as a fresh login
C18_Witness ==
  /\ LoginReturned /\ hist.resume = "hidden"
  /\ hist.fills = 1 /\ hist.path = "fresh" /\ login.result.success

----------------------------------------------------------------------------
(* Claims about how a fresh login is recognised (SpecLogin) *)

----------------------------------------------------------------------------
(* Claims about unreadable option-cache and template files (SpecTicket) *)

\* the option cache file the run started with is missing, unparsable, or
\* parses to something that is not a mapping
StartFileUnusable ==
  \/ thist.startFile.kind \in {"missing", "garbage"}
  \/ thist.startFile.kind = "json" /\ thist.startFile.value.t # "object"

\* C20: a run that found the option cache file missing, unparsable or not a
\* mapping treats every dropdown as a cache miss: no dropdown step of such a
\* run ends the run in the catch block because of what was loaded from the
\* file (only a step that works with the empty cache can fail, in filling).
C20_UnusableCacheIsNeverFatal ==
  [][(ticket.pc \in DropdownFields /\ StartFileUnusable
      /\ ticket.savedOptions # EmptyOptions) =>
       ticket'.outcome # "error"]_vars

----------------------------------------------------------------------------
(* Claims about which context a fresh login saves (SpecLogin) *)

\* the storage state a written session-state file holds
FileStorage(file) == [cookies |-> file.value.cookies, origins |-> file.value.origins]
\* the context that owns the page the login is performed on
LoginContext == heap.pageCtx[login.page]
\* this step is saveBrowserState writing the session-state file
SaveWrites == InLogin("save") /\ hist'.writes = hist.writes + 1

\* C21: whenever a fresh login succeeds and the session state is saved, the
\* state written to the file is the storage state of the context that owns
\* the page the login was performed on (global-browser path and own-browser
\* path, also after an expired saved session was restored into a context).
C21_SavedStateIsLoginContext ==
  [][SaveWrites => FileStorage(stateFile') = heap.storageOf[LoginContext]]_vars

----------------------------------------------------------------------------
(* Claims about the fallback from the global browser (SpecLogin) *)

\* loginToJira asked for the global browser and is past `if (!browser)` without
\* a page: the acquisition at 1364-1366 threw and the catch at 1367 ran
FellBack ==
  /\ call \in {"login", "ensure"}
  /\ login.useGlobalBrowser
  /\ login.pc \in {"ctx0", "ctxSaved", "newPage", "viewport"}

\* C22: when useGlobalBrowser is set and acquiring the global browser, context
\* or page fails, loginToJira resets the three globals to none and continues
\* with a freshly launched browser that it owns (shouldCloseBrowser is true),
\* never with the browser the failed acquisition obtained.
C22_FallbackOwnsFreshBrowser ==
  FellBack => /\ globalBrowser = 0 /\ globalContext = 0 /\ globalPage = 0
              /\ login.shouldCloseBrowser

----------------------------------------------------------------------------
(* Claims about overlapping calls of the global getters (SpecRace) *)

Browsers == {i \in Ids : i < heap.nextId /\ heap.ctxBrowser[i] = 0 /\ heap.pageCtx[i] = 0}
Contexts == {i \in Ids : heap.ctxBrowser[i] # 0}
Pages == {i \in Ids : heap.pageCtx[i] # 0}

\* both overlapping calls have returned a value
BothReturned == \A c \in Callers : race[c].pc = "done" /\ ~race[c].threw

\* the two callers hold the same browser, and the same context and page as
\* far as both of them asked for one
SameInstances ==
  /\ race[1].browser = race[2].browser
  /\ (race[1].context # 0 /\ race[2].context # 0) => race[1].context = race[2].context
  /\ race[1].fn = race[2].fn => race[1].ret = race[2].ret

\* C23: under any interleaving of two overlapping calls of getGlobalBrowser,
\* getGlobalContext or getGlobalPage, only one browser, one context and one
\* page are created, and both callers receive the same instances.
C23_OverlappingCallsShareOneTriple ==
  BothReturned =>
    /\ Cardinality(Browsers) <= 1 /\ Cardinality(Contexts) <= 1 /\ Cardinality(Pages) <= 1
    /\ SameInstances

----------------------------------------------------------------------------
(* Claims about the shape of the global triple (SpecLogin) *)

\* a global page implies a global context, a global context a global browser
Nested ==
  /\ globalPage # 0 => globalContext # 0
  /\ globalContext # 0 => globalBrowser # 0
\* no global refers to an instance that has been closed
NoClosedGlobal == {globalBrowser, globalContext, globalPage} \cap heap.closed = {}

\* C24: in every reachable state the global triple is nested (page implies
\* context, context implies browser) and no global refers to a closed
\* instance, also when a close call fails.
C24_GlobalsNestedAndOpen == Nested /\ NoClosedGlobal

\* a fresh login on the global triple whose context.close() threw: the page
\* is closed and no longer global, the context and the browser still are
C24_Witness ==
  /\ LoginReturned /\ hist.path = "fresh" /\ login.useGlobalBrowser
  /\ globalBrowser # 0 /\ globalContext # 0 /\ globalPage = 0
  /\ PagesOf(heap, globalContext) \cap heap.closed # {}

----------------------------------------------------------------------------
(* Claims about the page a successful login hands back (SpecLogin) *)

\* loginToJira has returned success together with its page
ReturnedLivePage == LoginReturned /\ login.result.success /\ login.result.page # 0

\* C25: loginToJira never returns success with a live page that shows the
\* 'Log in to continue' prompt: every success return that hands back a page
\* (resume path, already-logged-in paths) follows a probe of that page in
\* which the login heading was not visible and a create button was visible.
C25_LivePageWasProbedAuthenticated ==
  ReturnedLivePage => hist.lastProbe = "marker"

----------------------------------------------------------------------------
(* Claims about what ensureLoggedIn returns (SpecLogin) *)

\* ensureLoggedIn has returned a result (its promise was not rejected)
EnsureReturned == call = "ensure" /\ ensure.pc = "done" /\ ~ensure.rejected

\* the result carries an open page in an open context of an open browser
OpenTriple(r) ==
  /\ IsOpen(heap, r.browser) /\ IsOpen(heap, r.context) /\ IsOpen(heap, r.page)
  /\ heap.pageCtx[r.page] = r.context
  /\ heap.ctxBrowser[r.context] = r.browser

\* C26: ensureLoggedIn returns success only together with an open
\* browser/context/page triple whose page the last checkLoggedIn probe found
\* authenticated; on every failure return, every browser ensureLoggedIn
\* itself launched has been closed.
C26_EnsureResult ==
  EnsureReturned =>
    IF ensure.result.success
      THEN OpenTriple(ensure.result) /\ hist.lastProbe = "marker"
      ELSE ensure.launched \subseteq heap.closed

\* not logged in with the saved session, logged in afresh, launched a second
\* browser and still not logged in: both browsers are closed on return
C26_Witness ==
  /\ EnsureReturned /\ ~ensure.result.success
  /\ Cardinality(ensure.launched) = 2
  /\ ensure.result.error = "Still not logged in after login attempt"

----------------------------------------------------------------------------
(* Claims about a ticket run without a usable session (SpecTicket) *)

TicketDone == ticket.pc = "done"
NoSessionExit == TicketDone /\ ticket.outcome = "noSavedState"

\* C27: if loadBrowserState yields no usable session, createJiraTicket ends
\* without launching a browser, without prompting the operator, without
\* writing the option cache and without submitting anything; the readline
\* interface is closed on that exit as on every other exit.
C27_NoSessionEndsQuietly ==
  /\ TicketDone => ticket.rlClosed
  /\ NoSessionExit =>
       /\ LoadBrowserState(stateFile, cfg) = JsNull
       /\ heap = EmptyHeap /\ ticket.browser = 0
       /\ ~ticket.templatePrompted /\ ~ticket.step.prompted /\ ~ticket.asked
       /\ thist.writes = 0 /\ optionsFile = thist.startFile
       /\ ~ticket.submitted
  /\ (TicketDone /\ LoadBrowserState(stateFile, cfg) = JsNull) => NoSessionExit

\* a run that found a session-state file saved for another account has ended
C27_Witness == NoSessionExit /\ ticket.rlClosed /\ FileHasMetadata

----------------------------------------------------------------------------
(* Claims about what a run does to the option cache (SpecTicket) *)

\* a run has started: thist.startFile is the cache as that run found it
RunStarted == ticket.pc # "idle"
NonEmptyList(v) == v.t = "array" /\ v.items # <<>>

\* C28: a run of createJiraTicket never removes or changes an entry already in
\* the option cache: a key that held a non-empty list before the run holds
\* the identical list afterwards; the run only adds lists for keys that had
\* no list or an empty one, and a list it adds is never empty.
C28_CacheEntriesKept ==
  RunStarted =>
    \A k \in DropdownKeys :
      /\ StartHas(k) => FileList(optionsFile, k) = FileList(thist.startFile, k)
      /\ FileList(optionsFile, k) # FileList(thist.startFile, k) =>
           ~StartHas(k) /\ NonEmptyList(FileList(optionsFile, k))

\* a run that found components cached and work types empty has ended: the
\* components are as they were and the work types were added
C28_Witness ==
  /\ ticket.pc = "done" /\ thist.writes = 1
  /\ StartHas("components") /\ ~StartHas("workTypes")
  /\ FileList(optionsFile, "components") = FileList(thist.startFile, "components")
  /\ FileList(optionsFile, "workTypes") = JsArray(LiveTexts("workTypes"))

----------------------------------------------------------------------------
(* Claims about when the option cache is written (SpecTicket) *)

\* the option cache file changes in this step
CacheWritten == optionsFile' # optionsFile
\* a step or the save is entered only from the step before it in the order
EnteredInOrder ==
  \A i \in 2..11 :
    (ticket'.pc = FieldOrder[i] /\ ticket.pc # FieldOrder[i]) => ticket.pc = FieldOrder[i - 1]

\* C29: the option cache file is written at most once per run, only after all
\* ten field steps have completed and before the confirmation prompt; a run
\* in which a step before that point throws persists none of the lists it
\* scraped and leaves the file unchanged.
C29_CacheWrittenOnceAtTheEnd ==
  /\ [](thist.writes <= 1)
  /\ [][EnteredInOrder]_vars
  /\ [][(CacheWritten \/ thist'.writes > thist.writes) =>
          /\ ticket.pc = "save" /\ ticket.step.field = "keyStakeholder"
          /\ ~ticket.asked
          /\ ticket'.pc = "confirm"
          /\ thist'.writes = thist.writes + 1]_vars
  /\ []((ticket.pc = "done" /\ ticket.outcome = "error") =>
          thist.writes = 0 /\ optionsFile = thist.startFile)
  /\ []((RunStarted /\ ticket.pc \notin {"confirm", "done"}) =>
          thist.writes = 0 /\ optionsFile = thist.startFile)

\* the save step has written the lists this run scraped and the operator has
\* not been asked yet
C29_Witness ==
  /\ ticket.pc = "confirm" /\ ~ticket.asked
  /\ thist.writes = 1 /\ optionsFile # thist.startFile
  /\ \E k \in DropdownKeys : thist.scrapes[k] # NoScrape

----------------------------------------------------------------------------
(* Claims about the termination of loginToJira (SpecLoginFair) *)

\* a call of loginToJira is in progress / has returned its result
LoginRunning == call \in {"login", "ensure"} /\ login.pc \notin {"idle", "done", "returned"}
LoginEnded == login.pc = "done" /\ login.result # NoResult
\* iterations of the poll loop so far
PollIterations == login.elapsed \div PollIntervalMs
MaxPollIterations == PollTimeoutMs \div PollIntervalMs

\* C30: with every engine call returning or failing in the end, every call of
\* loginToJira ends with success = true or success = false; the URL poll loop
\* runs a bounded number of iterations and stops at the first iteration that
\* reads a location on the authenticated domain.
C30_LoginTerminates ==
  /\ LoginRunning ~> LoginEnded
  /\ [](InLogin("poll") =>
          /\ login.elapsed = PollIterations * PollIntervalMs
          /\ PollIterations <= MaxPollIterations)
  /\ [](InLogin("poll") => ~hist.observed)
  /\ [][(InLogin("poll") /\ hist'.observed) => login'.pc = "settle2"]_vars
  /\ [][(InLogin("poll") /\ login'.pc = "poll") => login'.elapsed = login.elapsed + PollIntervalMs]_vars

\* the poll loop has run all its iterations without reading a location on
\* the authenticated domain and the call has returned failure
C30_Witness ==
  /\ LoginEnded /\ call = "login" /\ ~login.result.success
  /\ login.result.error = DeadlineError
  /\ hist.polled /\ hist.fills = 1

====
